---- MODULE Spec2Model ----
(***************************************************************************)
(* A model of the local image build pipeline of capykat/cli:               *)
(*   build.Local            (pkg/build/local.go)                            *)
(*   build.New, Builder.Build, Builder.Push, sanitizeTaskID,                *)
(*   BuildDockerfile        (pkg/build, src/unnamed/part_000)               *)
(*   python, pythonLegacy   (pkg/build, src/unnamed/part_001)               *)
(* One invocation of Local is one run of the state machine.  The Docker     *)
(* engine, the registry, the Airplane API and the file system are the       *)
(* environment: every call into them may succeed or fail, and what the      *)
(* engine and the registry really did is recorded next to what the code     *)
(* was told.                                                                *)
(* Further specifications run the Builder on a Config of the caller's own   *)
(* (SpecBuilder), sanitizeTaskID on its own (SpecSanitize), concurrent       *)
(* invocations of Build (SpecConcurrent), a method call on the API client   *)
(* of src/unnamed/part_003 (SpecClient), ensureConfigVarsExist of           *)
(* pkg/cmd/tasks/deploy/predeploy.go (SpecPredeploy), and Validate and      *)
(* GetKindAndOptions of src/unnamed/part_002 on one definition              *)
(* (SpecValidate).                                                          *)
(***************************************************************************)
EXTENDS Naturals, Sequences, FiniteSets, TLC

(***************************************************************************)
(* Bounds of the model.                                                     *)
(***************************************************************************)
\* Longest task identifier (in characters) passed to Local.
MaxIdLen == 1

(***************************************************************************)
(* Strings.  A Go string whose characters the code looks at is a sequence   *)
(* of one-character strings; Str turns it into the text it denotes.         *)
(***************************************************************************)
RECURSIVE Str(_)
Str(s) == IF s = <<>> THEN "" ELSE Head(s) \o Str(Tail(s))

\* The characters task identifiers are drawn from: an upper-case letter, a
\* lower-case letter and a digit.
IdChars == {"A", "b", "1"}

Digits == {"1"}

\* unicode.IsDigit on one character.
IsDigit(c) == c \in Digits

\* strings.ToLower on one character.
LowerChar(c) == IF c = "A" THEN "a" ELSE c

\* strings.ToLower.
ToLower(s) == [i \in 1..Len(s) |-> LowerChar(s[i])]

TaskIDs == UNION {[1..n -> IdChars] : n \in 0..MaxIdLen}

\* A nil error, and an error with its chain of errors.Wrap messages, outermost
\* first.
NoErr == <<>>

Wrap(e, msg) == <<msg>> \o e

\* A Go pointer: <<>> is nil, <<v>> points to v.
NilPtr == <<>>

Ptr(v) == <<v>>

(***************************************************************************)
(* sanitizeTaskID.  Indexing s[len(s)-1] of the empty string panics; the    *)
(* model gives that case the value Panics, which Build turns into a panic.  *)
(***************************************************************************)
Panics == <<"panic: index out of range">>

\* sanitizeTaskID as it would be if it replaced every digit, not the last
\* character only.
sanitizeTaskID_EveryDigit(s) ==
    LET l == ToLower(s) IN
    IF Len(l) = 0 THEN Panics
    ELSE [i \in 1..Len(l) |-> IF IsDigit(l[i]) THEN "a" ELSE l[i]]

\* sanitizeTaskID as it would be if it put the letter after a last digit
\* instead of in its place.
sanitizeTaskID_AppendsLetter(s) ==
    LET l == ToLower(s) IN
    IF Len(l) = 0 THEN Panics
    ELSE IF IsDigit(l[Len(l)]) THEN l \o <<"a">>
    ELSE l

\* sanitizeTaskID, part_000 lines 288-294.
sanitizeTaskID(s) ==
    LET l == ToLower(s) IN
    IF Len(l) = 0 THEN Panics
    ELSE IF IsDigit(l[Len(l)]) THEN SubSeq(l, 1, Len(l) - 1) \o <<"a">>
    ELSE l

\* The tag as it would be if Build ignored its version argument.
ComposeTag_AlwaysLatest(repo, id, version) ==
    Str(repo) \o "/" \o "task-" \o Str(sanitizeTaskID(id)) \o ":" \o "latest"

\* Build, lines 170-172: repo + "/" + "task-" + sanitizeTaskID(taskID) + ":" + version.
ComposeTag(repo, id, version) ==
    Str(repo) \o "/" \o "task-" \o Str(sanitizeTaskID(id)) \o ":" \o version

\* host as it would be if it returned the whole repository reference.
host_WholeRepo(repo) == repo

\* RegistryAuth.host: strings.SplitN(r.Repo, "/", 2)[0].
RECURSIVE host(_)
host(repo) ==
    IF repo = <<>> \/ Head(repo) = "/" THEN <<>>
    ELSE <<Head(repo)>> \o host(Tail(repo))

\* filepath.IsAbs on a unix path.
IsAbs(p) == Len(p) > 0 /\ p[1] = "/"

(***************************************************************************)
(* The inputs of Local and the answers of its collaborators.                *)
(***************************************************************************)
\* What GetRegistryToken may answer.
Registries ==
    { [Token |-> "tok", Repo |-> <<"r", "/", "p">>],
      [Token |-> "tok2", Repo |-> <<"R">>] }

\* dir.DefinitionRootPath().
Roots == { <<"/", "w">>, <<"w">> }

\* Files that may exist under the root directory.
RootFiles == { {"main.py"}, {"main.py", "requirements.txt", "main.go"}, {} }

\* api.EnvVarValue: Value and Config are pointers to strings.
EnvVar(v, c) == [Value |-> v, Config |-> c]

\* def.Env of the task definitions Local is run on.
EmptyMap == [k \in {} |-> ""]

TaskEnvs ==
    { [k \in {} |-> EnvVar(NilPtr, NilPtr)],
      [k \in {"BUILD_A"} |-> EnvVar(Ptr("lit"), NilPtr)],
      [k \in {"BUILD_A", "B"} |->
          IF k = "BUILD_A" THEN EnvVar(Ptr("lit"), NilPtr)
                           ELSE EnvVar(NilPtr, Ptr("db:prod"))],
      [k \in {"B"} |-> EnvVar(NilPtr, Ptr("!bad"))],
      [k \in {"BUILD_", "BUILD_B"} |->
          IF k = "BUILD_" THEN EnvVar(NilPtr, NilPtr)
                          ELSE EnvVar(Ptr("lit2"), Ptr("db"))] }

\* The options a python section may carry.
PyOptions ==
    { [k \in {"entrypoint"} |-> "main.py"],
      [k \in {"entrypoint", "shim"} |-> IF k = "shim" THEN "true" ELSE "main.py"] }

\* The kind sections of a definition: a function from the names of the
\* sections that are set (non-nil) to the options each decodes to.
KindSections ==
    { [k \in {} |-> EmptyMap],
      [k \in {"shell"} |-> EmptyMap],
      [k \in {"go"} |-> [o \in {"entrypoint"} |-> "main.go"]],
      [k \in {"go", "python"} |->
          IF k = "go" THEN [o \in {"entrypoint"} |-> "main.go"]
                      ELSE [o \in {"entrypoint"} |-> "main.py"]] }
    \cup { [k \in {"python"} |-> o] : o \in PyOptions }

\* definitions.Definition, as far as Local reads it.
Definitions == [Sections : KindSections, Env : TaskEnvs]

\* configs.ParseName: "name" or "name:tag"; anything else is an error.
ParseName(ref) ==
    CASE ref = "db"      -> [ok |-> TRUE,  Name |-> "db", Tag |-> ""]
      [] ref = "db:prod" -> [ok |-> TRUE,  Name |-> "db", Tag |-> "prod"]
      [] OTHER           -> [ok |-> FALSE, Name |-> "",   Tag |-> ""]

\* The value the config service holds for (name, tag).
ConfigValue(name, tag) == "value-of-" \o name \o ":" \o tag

(***************************************************************************)
(* The engine.  An image is the set of its RepoTags.                        *)
(***************************************************************************)
\* A tag left in the engine by an earlier build of a task whose sanitized
\* identifier is "a".
StaleTag == ComposeTag(<<"r", "/", "p">>, <<"A">>, "latest")

OtherTag == "r/p/other:latest"

InitialEngines == { {}, {{OtherTag}}, {{OtherTag}, {StaleTag}} }

\* What the engine may stream back in a response body: plain progress, or
\* progress that carries an error message of the engine.
Streams == { "progress", "progress;errorDetail" }

\* An engine response body (resp.Body of ImageBuild, resp of ImagePush) and
\* the bytes it streams.
NoResp == [opened |-> FALSE, drained |-> FALSE, closed |-> FALSE, stream |-> ""]

OpenResp(s) == [opened |-> TRUE, drained |-> FALSE, closed |-> FALSE, stream |-> s]


(***************************************************************************)
(* State.                                                                   *)
(***************************************************************************)
VARIABLES
    pc,            \* where the invocation of Local is
    ctxDone,       \* the caller's context has been cancelled
    cancelledAt,   \* pc at the moment the context was cancelled ("" if never)
    taskID,        \* Local's taskID argument
    def,           \* Local's def argument
    root,          \* dir.DefinitionRootPath()
    rootFiles,     \* the files under the root directory
    registry,      \* Local: the answer of GetRegistryToken
    buildEnv,      \* getBuildEnv: the map being built
    envTodo,       \* getBuildEnv: keys of def.Env the range loop has not visited
    configCalls,   \* GetConfig requests sent so far
    kind,          \* Local: kind returned by GetKindAndOptions
    options,       \* Local: options returned by GetKindAndOptions
    b,             \* Local: the Builder returned by New (<<>> before)
    config,        \* the Config New was called with (<<>> before)
    dockerClients, \* number of engine clients New has constructed or tried to
    version,       \* Build's version argument
    tag,           \* Build: the composed tag
    tree,          \* Build: the staging tree: "none", "open" or "closed"
    treeCloses,    \* number of times tree.Close has run
    recipe,        \* Build: buf, the Dockerfile returned by BuildDockerfile
    staged,        \* what has been written into the staging tree
    archive,       \* Build: bc, the archive of the tree: "none", "open", "closed"
    opts,          \* Build: the ImageBuildOptions of the build request
    buildResp,     \* Build: resp.Body of ImageBuild
    images,        \* Build: the listing returned by ImageList (<<>> before)
    bo,            \* the BuildOutput Build returned ("" is BuildOutput{})
    buildErr,      \* the error Build returned
    pushResp,      \* Push: resp of ImagePush
    pushAuth,      \* Push: the RegistryAuth payload of the push request
    err,           \* the error Local returned
    engine,        \* the images the engine holds
    builtByThis,   \* the engine built an image for this invocation's request
    registryStore, \* the tags stored in the registry
    calls,         \* the engine calls issued so far, in order
    stages,        \* the pipeline stages started so far, with their outcome
    faults,        \* the failures the environment has produced so far
    sanIn,         \* the identifier sanitizeTaskID is applied to on its own
    sanOut,        \* what sanitizeTaskID returned for sanIn (<<>> is: not called)
    sanAgain,      \* what sanitizeTaskID returned for what it had returned
    runs,          \* concurrent invocations of Build: the locals of each
    dockerd,       \* concurrent invocations: the engine, tag -> who built the image
    tmpDirs,       \* concurrent invocations: staging directories created so far
    pushed,        \* concurrent invocations: the registry, tag -> who built the image
    apiPc,         \* API client: where the method being called is
    apiClient,     \* API client: the Client value the method is called on
    apiCall,       \* API client: the method called and what it hands to do
    httpReq,       \* API client: the request do has built (<<>> before)
    httpSent,      \* API client: the requests handed to client.Do, in order
    httpResp,      \* API client: what client.Do returned
    apiOut,        \* API client: the string a URL method returned
    apiErr,        \* API client: the error the method returned
    serverRuns,    \* ListRuns: how many runs the server holds for the request
    lrReq,         \* ListRuns: req
    lrPageLimit,   \* ListRuns: pageLimit
    lrQ,           \* ListRuns: q, the query values
    lrI,           \* ListRuns: i, the next page
    lrResp,        \* ListRuns: resp.Runs
    lrPage,        \* ListRuns: page.Runs
    lrOut,         \* ListRuns: the response returned (nil before)
    pdPc,          \* ensureConfigVarsExist: where it is
    pdCanPrompt,   \* utils.CanPrompt(): the terminal is interactive
    pdTodo,        \* ensureConfigVarsExist: keys of env the loop has not visited
    pdEnv,         \* ensureConfigVarsExist: env
    pdCall,        \* ensureConfigVarExists: the current call
    pdRequests,    \* the config requests sent to the API so far, in order
    pdOut,         \* the error ensureConfigVarsExist returned
    vdPc,          \* Validate and GetKindAndOptions on one definition: where it is
    vdDef,         \* the definition they are called on
    vdErr,         \* the error Validate returned
    vdKind         \* what GetKindAndOptions returned

inputVars == <<taskID, def, root, rootFiles>>

ctxVars == <<ctxDone, cancelledAt>>

localVars ==
    <<registry, buildEnv, envTodo, configCalls, kind, options, b, config,
      dockerClients, version>>

buildVars ==
    <<tag, tree, treeCloses, recipe, staged, archive, opts, buildResp, images, bo,
      buildErr>>

pushVars == <<pushResp, pushAuth>>

worldVars == <<engine, builtByThis, registryStore>>

\* The variables of one invocation of Local.
localRunVars ==
    <<pc, ctxVars, inputVars, localVars, buildVars, pushVars, err, worldVars,
      calls, stages, faults>>

\* The variables of sanitizeTaskID applied on its own.
sanVars == <<sanIn, sanOut, sanAgain>>

\* The variables the invocation of Local does not touch.
\* The variables of concurrent invocations of Build.
concVars == <<runs, dockerd, tmpDirs, pushed>>

\* The variables of a method call on the API client.
\* The variables of ListRuns.
listVars ==
    <<serverRuns, lrReq, lrPageLimit, lrQ, lrI, lrResp, lrPage, lrOut>>

apiVars ==
    <<apiPc, apiClient, apiCall, httpReq, httpSent, httpResp, apiOut, apiErr,
      listVars>>

\* The variables of ensureConfigVarsExist.
deployVars == <<pdPc, pdCanPrompt, pdTodo, pdEnv, pdCall, pdRequests, pdOut>>

\* The variables of a definition being validated.
valVars == <<vdPc, vdDef, vdErr, vdKind>>

auxVars == <<sanVars, concVars, apiVars, deployVars, valVars>>

vars == <<localRunVars, auxVars>>

NoBuilder == <<>>

NoRegistry == [Token |-> "", Repo |-> <<>>]

NoOpts == [Tags |-> <<>>, BuildArgs |-> EmptyMap, Platform |-> "",
           AuthConfigs |-> EmptyMap]

InitLocal ==
    /\ pc = "start"
    /\ ctxDone = FALSE
    /\ cancelledAt = ""
    /\ taskID = <<>>
    /\ def = [Sections |-> [k \in {} |-> EmptyMap],
              Env |-> [k \in {} |-> EnvVar(NilPtr, NilPtr)]]
    /\ root = <<>>
    /\ rootFiles \in RootFiles
    /\ registry = NoRegistry
    /\ buildEnv = EmptyMap
    /\ envTodo = {}
    /\ configCalls = <<>>
    /\ kind = ""
    /\ options = EmptyMap
    /\ b = NoBuilder
    /\ config = NilPtr
    /\ dockerClients = 0
    /\ version = ""
    /\ tag = ""
    /\ tree = "none"
    /\ treeCloses = 0
    /\ recipe = <<>>
    /\ staged = {}
    /\ archive = "none"
    /\ opts = NoOpts
    /\ buildResp = NoResp
    /\ images = NilPtr
    /\ bo = ""
    /\ buildErr = NoErr
    /\ pushResp = NoResp
    /\ pushAuth = ""
    /\ err = NoErr
    /\ engine \in InitialEngines
    /\ builtByThis = FALSE
    /\ registryStore = {}
    /\ calls = <<>>
    /\ stages = <<>>
    /\ faults = <<>>

\* sanitizeTaskID has not been applied on its own.
SanIdle ==
    /\ sanIn = <<>>
    /\ sanOut = NilPtr
    /\ sanAgain = NilPtr

\* The invocations of Build that may run concurrently in one process.
NumInvocations == 2

Invocations == 1..NumInvocations

\* The locals of an invocation of Build that has not been called.
IdleRun ==
    [pc |-> "idle", taskID |-> <<>>, tag |-> "", tree |-> 0, archive |-> 0,
     bo |-> "", verified |-> 0, err |-> NoErr]

\* No tag is held by anyone.
NoTags == [t \in {} |-> 0]

\* No concurrent invocation of Build has been called.
ConcIdle ==
    /\ runs = [i \in Invocations |-> IdleRun]
    /\ dockerd = NoTags
    /\ tmpDirs = 0
    /\ pushed = NoTags

\* The zero Client.
NoClient == [Host |-> <<>>, Token |-> "", APIKey |-> "", TeamID |-> ""]

NoCall == [name |-> "", method |-> "", path |-> "", payload |-> NilPtr,
           reply |-> FALSE, query |-> EmptyMap]

\* The zero ListRunsRequest.
NoListRunsRequest ==
    [Page |-> 0, TaskID |-> <<>>, Limit |-> 0, Since |-> <<>>, Until |-> <<>>]

\* ListRuns has not been called.
ListIdle ==
    /\ serverRuns = 0
    /\ lrReq = NoListRunsRequest
    /\ lrPageLimit = 0
    /\ lrQ = EmptyMap
    /\ lrI = 0
    /\ lrResp = <<>>
    /\ lrPage = <<>>
    /\ lrOut = NilPtr

\* No response: client.Do has not returned, or returned a nil response.
NoHttpResp == [status |-> 0, text |-> "", body |-> "", drained |-> FALSE,
               closed |-> FALSE, err |-> NoErr]

\* No method of the API client has been called.
ApiIdle ==
    /\ apiPc = "idle"
    /\ apiClient = NoClient
    /\ apiCall = NoCall
    /\ httpReq = <<>>
    /\ httpSent = <<>>
    /\ httpResp = NoHttpResp
    /\ apiOut = ""
    /\ apiErr = NoErr
    /\ ListIdle

\* ensureConfigVarExists has not been called.
NoEnsure ==
    [ref |-> "", lookup |-> "", confirmed |-> "", prompts |-> 0,
     created |-> FALSE, returned |-> FALSE, err |-> NoErr]

\* ensureConfigVarsExist has not been called.
DeployIdle ==
    /\ pdPc = "idle"
    /\ pdCanPrompt = FALSE
    /\ pdTodo = {}
    /\ pdEnv = EmptyMap
    /\ pdCall = NoEnsure
    /\ pdRequests = <<>>
    /\ pdOut = NoErr

\* Definition{}, and GetKindAndOptions not called.
NoDefinition == [Slug |-> "", Sections |-> [k \in {} |-> EmptyMap]]

NoKind == [kind |-> "", options |-> EmptyMap, err |-> NoErr]

\* No definition has been validated.
ValIdle ==
    /\ vdPc = "idle"
    /\ vdDef = NoDefinition
    /\ vdErr = NoErr
    /\ vdKind = NoKind

AuxIdle == SanIdle /\ ConcIdle /\ ApiIdle /\ DeployIdle /\ ValIdle

Init == InitLocal /\ AuxIdle

(***************************************************************************)
(* Pipeline stages (a history of the run): a stage is appended when its     *)
(* first statement runs and closed with "ok" or "failed" when it ends.      *)
(***************************************************************************)
StartStage(s) == Append(stages, [name |-> s, st |-> "running"])

EndStage(st) == [stages EXCEPT ![Len(stages)].st = st]

WholeStage(s, st) == Append(stages, [name |-> s, st |-> st])

\* A call into the environment (the API, the file system, the engine) failed,
\* or a check of the code did.
Fault(f) == faults' = Append(faults, f)

(***************************************************************************)
(* The caller cancels the context.  It can do so at any moment of the run.  *)
(***************************************************************************)
Cancel ==
    /\ pc \notin {"start", "done", "panic"}
    /\ ~ctxDone
    /\ ctxDone' = TRUE
    /\ cancelledAt' = pc
    /\ UNCHANGED <<auxVars, pc, inputVars, localVars, buildVars, pushVars, err, worldVars,
                   calls, stages, faults>>

(***************************************************************************)
(* Local, lines 14-41: everything before Build.                             *)
(***************************************************************************)
\* Local returns e.
LocalReturns(e) ==
    /\ pc' = "done"
    /\ err' = e

\* The caller invokes Local(ctx, client, dir, def, taskID).
LocalCall ==
    /\ pc = "start"
    /\ \E id \in TaskIDs, d \in Definitions, r \in Roots :
          /\ taskID' = id
          /\ def' = d
          /\ root' = r
    /\ pc' = "token"
    /\ UNCHANGED <<auxVars, ctxVars, rootFiles, localVars, buildVars, pushVars, err,
                   worldVars, calls, stages, faults>>

\* Local as it would be if it went on to getBuildEnv after a failed
\* GetRegistryToken.
GetRegistryToken_IgnoresError ==
    /\ pc = "token"
    /\ \/ /\ ~ctxDone
          /\ \E r \in Registries : registry' = r
          /\ UNCHANGED faults
       \/ /\ Fault("registry token")
          /\ UNCHANGED registry
    /\ envTodo' = DOMAIN def.Env
    /\ buildEnv' = EmptyMap
    /\ stages' = StartStage("env")
    /\ pc' = "env"
    /\ UNCHANGED <<auxVars, ctxVars, inputVars, configCalls, kind, options, b,
                   config, dockerClients, version, buildVars, pushVars,
                   worldVars, calls, err>>

\* Lines 15-20: client.GetRegistryToken(ctx); on success getBuildEnv is entered.
\* A request made with a cancelled context fails.
GetRegistryToken ==
    /\ pc = "token"
    /\ \/ /\ ~ctxDone
          /\ \E r \in Registries : registry' = r
          /\ envTodo' = DOMAIN def.Env
          /\ buildEnv' = EmptyMap
          /\ stages' = StartStage("env")
          /\ pc' = "env"
          /\ UNCHANGED <<err, faults>>
       \/ /\ LocalReturns(Wrap(<<"api">>, "getting registry token"))
          /\ Fault("registry token")
          /\ UNCHANGED <<registry, envTodo, buildEnv, stages>>
    /\ UNCHANGED <<auxVars, ctxVars, inputVars, configCalls, kind, options, b,
                   config, dockerClients, version, buildVars, pushVars,
                   worldVars, calls>>

\* getBuildEnv as it would be if it put the reference itself into the map.
GetBuildEnvStep_KeepsReference ==
    /\ pc = "env"
    /\ \E k \in envTodo :
         LET v == def.Env[k] IN
         /\ envTodo' = envTodo \ {k}
         /\ IF v.Value # NilPtr
            THEN /\ buildEnv' = [x \in DOMAIN buildEnv \cup {k} |->
                                    IF x = k THEN v.Value[1] ELSE buildEnv[x]]
                 /\ UNCHANGED <<pc, err, configCalls, stages, faults>>
            ELSE IF v.Config # NilPtr
            THEN LET nt == ParseName(v.Config[1]) IN
                 IF ~nt.ok
                 THEN /\ LocalReturns(<<"parse name">>)
                      /\ Fault("env")
                      /\ buildEnv' = EmptyMap
                      /\ stages' = EndStage("failed")
                      /\ UNCHANGED configCalls
                 ELSE /\ configCalls' =
                            Append(configCalls,
                                   [Name |-> nt.Name, Tag |-> nt.Tag,
                                    ShowSecret |-> TRUE])
                      /\ \/ /\ ~ctxDone
                            /\ buildEnv' =
                                 [x \in DOMAIN buildEnv \cup {k} |->
                                    IF x = k THEN v.Config[1]
                                             ELSE buildEnv[x]]
                            /\ UNCHANGED <<pc, err, stages, faults>>
                         \/ /\ LocalReturns(<<"get config">>)
                            /\ Fault("env")
                            /\ buildEnv' = EmptyMap
                            /\ stages' = EndStage("failed")
            ELSE UNCHANGED <<pc, err, buildEnv, configCalls, stages, faults>>
    /\ UNCHANGED <<auxVars, ctxVars, inputVars, registry, kind, options, b,
                   config, dockerClients, version, buildVars, pushVars,
                   worldVars, calls>>

\* getBuildEnv as it would be if it returned the map built so far next to
\* the error.
GetBuildEnvStep_ReturnsPartial ==
    /\ pc = "env"
    /\ \E k \in envTodo :
         LET v == def.Env[k] IN
         /\ envTodo' = envTodo \ {k}
         /\ IF v.Value # NilPtr
            THEN /\ buildEnv' = [x \in DOMAIN buildEnv \cup {k} |->
                                    IF x = k THEN v.Value[1] ELSE buildEnv[x]]
                 /\ UNCHANGED <<pc, err, configCalls, stages, faults>>
            ELSE IF v.Config # NilPtr
            THEN LET nt == ParseName(v.Config[1]) IN
                 IF ~nt.ok
                 THEN /\ LocalReturns(<<"parse name">>)
                      /\ Fault("env")
                      /\ UNCHANGED buildEnv
                      /\ stages' = EndStage("failed")
                      /\ UNCHANGED configCalls
                 ELSE /\ configCalls' =
                            Append(configCalls,
                                   [Name |-> nt.Name, Tag |-> nt.Tag,
                                    ShowSecret |-> TRUE])
                      /\ \/ /\ ~ctxDone
                            /\ buildEnv' =
                                 [x \in DOMAIN buildEnv \cup {k} |->
                                    IF x = k THEN ConfigValue(nt.Name, nt.Tag)
                                             ELSE buildEnv[x]]
                            /\ UNCHANGED <<pc, err, stages, faults>>
                         \/ /\ LocalReturns(<<"get config">>)
                            /\ Fault("env")
                            /\ UNCHANGED buildEnv
                            /\ stages' = EndStage("failed")
            ELSE UNCHANGED <<pc, err, buildEnv, configCalls, stages, faults>>
    /\ UNCHANGED <<auxVars, ctxVars, inputVars, registry, kind, options, b,
                   config, dockerClients, version, buildVars, pushVars,
                   worldVars, calls>>

\* getBuildEnv as it would be if a config reference took precedence over a
\* literal value.
GetBuildEnvStep_PrefersReference ==
    /\ pc = "env"
    /\ \E k \in envTodo :
         LET v == def.Env[k] IN
         /\ envTodo' = envTodo \ {k}
         /\ IF v.Value # NilPtr /\ v.Config = NilPtr
            THEN /\ buildEnv' = [x \in DOMAIN buildEnv \cup {k} |->
                                    IF x = k THEN v.Value[1] ELSE buildEnv[x]]
                 /\ UNCHANGED <<pc, err, configCalls, stages, faults>>
            ELSE IF v.Config # NilPtr
            THEN LET nt == ParseName(v.Config[1]) IN
                 IF ~nt.ok
                 THEN /\ LocalReturns(<<"parse name">>)
                      /\ Fault("env")
                      /\ buildEnv' = EmptyMap
                      /\ stages' = EndStage("failed")
                      /\ UNCHANGED configCalls
                 ELSE /\ configCalls' =
                            Append(configCalls,
                                   [Name |-> nt.Name, Tag |-> nt.Tag,
                                    ShowSecret |-> TRUE])
                      /\ \/ /\ ~ctxDone
                            /\ buildEnv' =
                                 [x \in DOMAIN buildEnv \cup {k} |->
                                    IF x = k THEN ConfigValue(nt.Name, nt.Tag)
                                             ELSE buildEnv[x]]
                            /\ UNCHANGED <<pc, err, stages, faults>>
                         \/ /\ LocalReturns(<<"get config">>)
                            /\ Fault("env")
                            /\ buildEnv' = EmptyMap
                            /\ stages' = EndStage("failed")
            ELSE UNCHANGED <<pc, err, buildEnv, configCalls, stages, faults>>
    /\ UNCHANGED <<auxVars, ctxVars, inputVars, registry, kind, options, b,
                   config, dockerClients, version, buildVars, pushVars,
                   worldVars, calls>>

\* getBuildEnv, lines 61-79: one iteration of the range loop over def.Env (Go
\* visits the keys of a map in no fixed order).
GetBuildEnvStep ==
    /\ pc = "env"
    /\ \E k \in envTodo :
         LET v == def.Env[k] IN
         /\ envTodo' = envTodo \ {k}
         /\ IF v.Value # NilPtr
            THEN /\ buildEnv' = [x \in DOMAIN buildEnv \cup {k} |->
                                    IF x = k THEN v.Value[1] ELSE buildEnv[x]]
                 /\ UNCHANGED <<pc, err, configCalls, stages, faults>>
            ELSE IF v.Config # NilPtr
            THEN LET nt == ParseName(v.Config[1]) IN
                 IF ~nt.ok
                 THEN /\ LocalReturns(<<"parse name">>)
                      /\ Fault("env")
                      /\ buildEnv' = EmptyMap
                      /\ stages' = EndStage("failed")
                      /\ UNCHANGED configCalls
                 ELSE /\ configCalls' =
                            Append(configCalls,
                                   [Name |-> nt.Name, Tag |-> nt.Tag,
                                    ShowSecret |-> TRUE])
                      /\ \/ /\ ~ctxDone
                            /\ buildEnv' =
                                 [x \in DOMAIN buildEnv \cup {k} |->
                                    IF x = k THEN ConfigValue(nt.Name, nt.Tag)
                                             ELSE buildEnv[x]]
                            /\ UNCHANGED <<pc, err, stages, faults>>
                         \/ /\ LocalReturns(<<"get config">>)
                            /\ Fault("env")
                            /\ buildEnv' = EmptyMap
                            /\ stages' = EndStage("failed")
            ELSE UNCHANGED <<pc, err, buildEnv, configCalls, stages, faults>>
    /\ UNCHANGED <<auxVars, ctxVars, inputVars, registry, kind, options, b,
                   config, dockerClients, version, buildVars, pushVars,
                   worldVars, calls>>

\* getBuildEnv, line 80, and Local, lines 20-23: the loop is over.
GetBuildEnvReturn ==
    /\ pc = "env"
    /\ envTodo = {}
    /\ stages' = EndStage("ok")
    /\ pc' = "kind"
    /\ UNCHANGED <<auxVars, ctxVars, inputVars, localVars, buildVars, pushVars, err,
                   worldVars, calls, faults>>

\* Definition.GetKindAndOptions: the first section set, in the order of the
\* if-chain, decides the kind.
KindOrder ==
    <<"deno", "dockerfile", "image", "go", "node", "python", "shell", "sql", "rest">>

\* The option values that are not Go strings (a number in the task file).
NonStrings == {"int(1)"}

\* o without the key old, and with body under the key new and the body type.
Rebody(o, old, new, body, type) ==
    [k \in (DOMAIN o \ {old}) \cup {new, "bodyType"} |->
        IF k = new THEN body ELSE IF k = "bodyType" THEN type ELSE o[k]]

\* Lines 413-448: the options of a REST section; a jsonBody that is not a
\* string is serialized with json.Marshal.
RestOptions(o) ==
    IF "jsonBody" \in DOMAIN o
    THEN Rebody(o, "jsonBody", "body",
                IF o["jsonBody"] \in NonStrings
                THEN "json(" \o o["jsonBody"] \o ")" ELSE o["jsonBody"],
                "json")
    ELSE IF "formUrlEncodedBody" \in DOMAIN o
    THEN Rebody(o, "formUrlEncodedBody", "formData", o["formUrlEncodedBody"],
                "x-www-form-urlencoded")
    ELSE IF "formDataBody" \in DOMAIN o
    THEN Rebody(o, "formDataBody", "formData", o["formDataBody"], "form-data")
    ELSE [k \in DOMAIN o \cup {"bodyType"} |->
             IF k = "bodyType" THEN "raw" ELSE o[k]]

GetKindAndOptions(d) ==
    LET set == {i \in 1..Len(KindOrder) : KindOrder[i] \in DOMAIN d.Sections} IN
    IF set = {}
    THEN [kind |-> "", options |-> EmptyMap, err |-> <<"No kind specified">>]
    ELSE LET i == CHOOSE i \in set : \A j \in set : i <= j IN
         [kind |-> KindOrder[i],
          options |-> IF KindOrder[i] = "image" THEN EmptyMap
                      ELSE IF KindOrder[i] = "rest"
                      THEN RestOptions(d.Sections["rest"])
                      ELSE d.Sections[KindOrder[i]],
          err |-> NoErr]

\* Local, lines 25-28.
LocalKind ==
    /\ pc = "kind"
    /\ LET r == GetKindAndOptions(def) IN
       IF r.err # NoErr
       THEN /\ LocalReturns(r.err)
            /\ Fault("kind")
            /\ UNCHANGED <<kind, options>>
       ELSE /\ kind' = r.kind
            /\ options' = r.options
            /\ pc' = "new"
            /\ UNCHANGED <<err, faults>>
    /\ UNCHANGED <<auxVars, ctxVars, inputVars, registry, buildEnv, envTodo,
                   configCalls, b, config, dockerClients, version, buildVars,
                   pushVars, worldVars, calls, stages>>

\* New as it would be if it constructed the engine client first and checked
\* the configuration afterwards.
New_ClientFirst(c) ==
    IF ~IsAbs(c.Root)
    THEN {[b |-> NoBuilder, err |-> <<"expected an absolute path">>, clients |-> 1]}
    ELSE IF c.Auth = NilPtr
    THEN {[b |-> NoBuilder, err |-> <<"builder requires registry auth">>,
           clients |-> 1]}
    ELSE { [b |-> [root |-> c.Root,
                   name |-> IF c.Builder = "" THEN "manual" ELSE c.Builder,
                   args |-> IF c.Args = NilPtr THEN EmptyMap ELSE c.Args[1],
                   writer |-> IF c.Writer = NilPtr THEN "os.Stderr" ELSE c.Writer[1],
                   auth |-> c.Auth[1]],
            err |-> NoErr, clients |-> 1],
           [b |-> NoBuilder, err |-> <<"docker client">>, clients |-> 1] }

\* New as it would be if it left an unset builder name as it is.
New_NoDefaultName(c) ==
    IF ~IsAbs(c.Root)
    THEN {[b |-> NoBuilder, err |-> <<"expected an absolute path">>, clients |-> 0]}
    ELSE IF c.Auth = NilPtr
    THEN {[b |-> NoBuilder, err |-> <<"builder requires registry auth">>,
           clients |-> 0]}
    ELSE { [b |-> [root |-> c.Root,
                   name |-> c.Builder,
                   args |-> IF c.Args = NilPtr THEN EmptyMap ELSE c.Args[1],
                   writer |-> IF c.Writer = NilPtr THEN "os.Stderr" ELSE c.Writer[1],
                   auth |-> c.Auth[1]],
            err |-> NoErr, clients |-> 1],
           [b |-> NoBuilder, err |-> <<"docker client">>, clients |-> 1] }

\* New, lines 118-155.  A Config is a record of Root, Builder, Args, Auth and
\* Writer, where Args, Auth and Writer are pointers (a nil map, a nil
\* *RegistryAuth, a nil io.Writer are NilPtr).  The result is the Builder, the
\* error and the number of engine clients New constructed or tried to
\* (client.NewClientWithOpts, line 139, may fail).
New(c) ==
    IF ~IsAbs(c.Root)
    THEN {[b |-> NoBuilder, err |-> <<"expected an absolute path">>, clients |-> 0]}
    ELSE IF c.Auth = NilPtr
    THEN {[b |-> NoBuilder, err |-> <<"builder requires registry auth">>,
           clients |-> 0]}
    ELSE { [b |-> [root |-> c.Root,
                   name |-> IF c.Builder = "" THEN "manual" ELSE c.Builder,
                   args |-> IF c.Args = NilPtr THEN EmptyMap ELSE c.Args[1],
                   writer |-> IF c.Writer = NilPtr THEN "os.Stderr" ELSE c.Writer[1],
                   auth |-> c.Auth[1]],
            err |-> NoErr, clients |-> 1],
           [b |-> NoBuilder, err |-> <<"docker client">>, clients |-> 1] }

\* Local, lines 29-47: New on the Config Local builds (Writer is not set;
\* BuildEnv is a field New does not read), then the call of
\* Build(ctx, taskID, "latest").
LocalNew ==
    /\ pc = "new"
    /\ LET c == [Root |-> root, Builder |-> kind, Args |-> Ptr(options),
                 Auth |-> Ptr([Token |-> registry.Token, Repo |-> registry.Repo]),
                 Writer |-> NilPtr, BuildEnv |-> buildEnv] IN
       /\ config' = Ptr(c)
       /\ \E r \in New(c) :
            /\ dockerClients' = dockerClients + r.clients
            /\ IF r.err # NoErr
               THEN /\ LocalReturns(Wrap(r.err, "new build"))
                    /\ Fault("configuration")
                    /\ UNCHANGED <<b, version>>
               ELSE /\ b' = r.b
                    /\ version' = "latest"
                    /\ pc' = "build"
                    /\ UNCHANGED <<err, faults>>
    /\ UNCHANGED <<auxVars, ctxVars, inputVars, registry, buildEnv, envTodo,
                   configCalls, kind, options, buildVars, pushVars, worldVars,
                   calls, stages>>

(***************************************************************************)
(* Dockerfile synthesis.                                                    *)
(***************************************************************************)
\* The type assertion as it would be if it kept a value that is no string.
Arg_KeepsNonString(args, key) == IF key \in DOMAIN args THEN args[key] ELSE ""

\* args[key].(string) with the ok result dropped: "" when the key is absent
\* or its value is not a string.
Arg(args, key) ==
    IF key \in DOMAIN args /\ args[key] \notin NonStrings THEN args[key] ELSE ""

\* fsx.Exists / fsx.AssertExistsAll on filepath.Join(root, p): joining the
\* empty path gives the root directory itself.
ExistsUnder(files, p) == p = "" \/ p \in files

\* GetVersion(NamePython, "3"): the base image, or a failure to resolve it.
GetVersionResults == { [Base |-> "python:3", err |-> NoErr],
                       [Base |-> "", err |-> <<"unknown version">>] }

\* pythonLegacy as it would be without the check that the entrypoint exists.
pythonLegacy_NoEntrypointCheck(files, args) ==
    LET entrypoint == Arg(args, "entrypoint") IN
    { IF v.err # NoErr THEN [buf |-> <<>>, err |-> v.err]
      ELSE [buf |-> <<[From |-> v.Base,
                       EchoRequirements |-> ~ExistsUnder(files, "requirements.txt"),
                       CopyRequirements |-> FALSE,
                       PipInstall |-> TRUE,
                       Shim |-> "",
                       Entrypoint |-> "/airplane/" \o entrypoint]>>,
            err |-> NoErr]
      : v \in GetVersionResults }

\* pythonLegacy as it would be if it installed dependencies only when the
\* root holds a requirements.txt.
pythonLegacy_InstallsOnlyWithManifest(files, args) ==
    LET entrypoint == Arg(args, "entrypoint") IN
    IF ~ExistsUnder(files, entrypoint)
    THEN {[buf |-> <<>>, err |-> <<"the file is required", entrypoint>>]}
    ELSE { IF v.err # NoErr THEN [buf |-> <<>>, err |-> v.err]
           ELSE [buf |-> <<[From |-> v.Base,
                            EchoRequirements |-> FALSE,
                            CopyRequirements |-> FALSE,
                            PipInstall |-> ExistsUnder(files, "requirements.txt"),
                            Shim |-> "",
                            Entrypoint |-> "/airplane/" \o entrypoint]>>,
                 err |-> NoErr]
           : v \in GetVersionResults }

\* pythonLegacy, part_001 lines 82-124.
pythonLegacy(files, args) ==
    LET entrypoint == Arg(args, "entrypoint") IN
    IF ~ExistsUnder(files, entrypoint)
    THEN {[buf |-> <<>>, err |-> <<"the file is required", entrypoint>>]}
    ELSE { IF v.err # NoErr THEN [buf |-> <<>>, err |-> v.err]
           ELSE [buf |-> <<[From |-> v.Base,
                            EchoRequirements |-> ~ExistsUnder(files, "requirements.txt"),
                            CopyRequirements |-> FALSE,
                            PipInstall |-> TRUE,
                            Shim |-> "",
                            Entrypoint |-> "/airplane/" \o entrypoint]>>,
                 err |-> NoErr]
           : v \in GetVersionResults }

\* python as it would be if the shim recipe always installed from
\* requirements.txt.
python_AlwaysInstalls(files, args) ==
    IF Arg(args, "shim") # "true" THEN pythonLegacy(files, args)
    ELSE LET entrypoint == Arg(args, "entrypoint") IN
         IF ~ExistsUnder(files, entrypoint)
         THEN {[buf |-> <<>>, err |-> <<"the file is required", entrypoint>>]}
         ELSE { IF v.err # NoErr THEN [buf |-> <<>>, err |-> v.err]
                ELSE [buf |-> <<[From |-> v.Base,
                                 EchoRequirements |-> FALSE,
                                 CopyRequirements |-> TRUE,
                                 PipInstall |-> TRUE,
                                 Shim |-> "shim(" \o entrypoint \o ")",
                                 Entrypoint |-> ".airplane/shim.py"]>>,
                      err |-> NoErr]
                : v \in GetVersionResults }

\* python, part_001 lines 15-62.
python(files, args) ==
    IF Arg(args, "shim") # "true" THEN pythonLegacy(files, args)
    ELSE LET entrypoint == Arg(args, "entrypoint") IN
         IF ~ExistsUnder(files, entrypoint)
         THEN {[buf |-> <<>>, err |-> <<"the file is required", entrypoint>>]}
         ELSE { IF v.err # NoErr THEN [buf |-> <<>>, err |-> v.err]
                ELSE [buf |-> <<[From |-> v.Base,
                                 EchoRequirements |-> FALSE,
                                 CopyRequirements |-> ExistsUnder(files, "requirements.txt"),
                                 PipInstall |-> ExistsUnder(files, "requirements.txt"),
                                 Shim |-> "shim(" \o entrypoint \o ")",
                                 Entrypoint |-> ".airplane/shim.py"]>>,
                      err |-> NoErr]
                : v \in GetVersionResults }

\* golang, deno, node, docker: the entrypoint must exist under the root;
\* then a recipe, or an error of the generator (version resolution, template).
otherGenerator(name, files, args) ==
    LET entrypoint == Arg(args, "entrypoint") IN
    IF ~ExistsUnder(files, entrypoint)
    THEN {[buf |-> <<>>, err |-> <<"the file is required", entrypoint>>]}
    ELSE { [buf |-> <<[From |-> name, EchoRequirements |-> FALSE,
                       CopyRequirements |-> FALSE, PipInstall |-> FALSE,
                       Shim |-> "", Entrypoint |-> entrypoint]>>,
            err |-> NoErr],
           [buf |-> <<>>, err |-> <<"generator", name>>] }

\* BuildDockerfile as it would be if a name it does not know were handed to
\* the docker generator.
BuildDockerfile_DefaultsToDocker(c, files) ==
    CASE c.Builder = "go"     -> otherGenerator("go", files, c.Args)
      [] c.Builder = "deno"   -> otherGenerator("deno", files, c.Args)
      [] c.Builder = "python" -> python(files, c.Args)
      [] c.Builder = "node"   -> otherGenerator("node", files, c.Args)
      [] OTHER                -> otherGenerator("docker", files, c.Args)

\* BuildDockerfile as it would be with a case that hands "manual" to the
\* docker generator.
BuildDockerfile_ManualIsDocker(c, files) ==
    CASE c.Builder = "go"     -> otherGenerator("go", files, c.Args)
      [] c.Builder = "deno"   -> otherGenerator("deno", files, c.Args)
      [] c.Builder = "python" -> python(files, c.Args)
      [] c.Builder = "node"   -> otherGenerator("node", files, c.Args)
      [] c.Builder \in {"docker", "manual"} ->
                                 otherGenerator("docker", files, c.Args)
      [] OTHER -> {[buf |-> <<>>, err |-> <<"unknown builder type", c.Builder>>]}

\* BuildDockerfile, part_000 lines 316-331.
BuildDockerfile(c, files) ==
    CASE c.Builder = "go"     -> otherGenerator("go", files, c.Args)
      [] c.Builder = "deno"   -> otherGenerator("deno", files, c.Args)
      [] c.Builder = "python" -> python(files, c.Args)
      [] c.Builder = "node"   -> otherGenerator("node", files, c.Args)
      [] c.Builder = "docker" -> otherGenerator("docker", files, c.Args)
      [] OTHER -> {[buf |-> <<>>, err |-> <<"unknown builder type", c.Builder>>]}

(***************************************************************************)
(* Builder.Build, part_000 lines 169-238.                                   *)
(***************************************************************************)
\* Build as it would be with tree.Close called on the success path only,
\* instead of deferred.
BuildReturns_LeakOnError(out, e, resp) ==
    /\ pc' = "built"
    /\ bo' = out
    /\ buildErr' = e
    /\ buildResp' = IF resp.opened THEN [resp EXCEPT !.closed = TRUE] ELSE resp
    /\ archive' = IF archive = "open" THEN "closed" ELSE archive
    /\ tree' = IF tree = "open" /\ e = NoErr THEN "closed" ELSE tree
    /\ treeCloses' = IF tree = "open" /\ e = NoErr THEN treeCloses + 1 ELSE treeCloses

\* Build as it would be without the deferred resp.Body.Close.
BuildReturns_NoBodyClose(out, e, resp) ==
    /\ pc' = "built"
    /\ bo' = out
    /\ buildErr' = e
    /\ buildResp' = resp
    /\ archive' = IF archive = "open" THEN "closed" ELSE archive
    /\ tree' = IF tree = "open" THEN "closed" ELSE tree
    /\ treeCloses' = IF tree = "open" THEN treeCloses + 1 ELSE treeCloses

\* Build returns (out, e): the deferred calls run, last registered first
\* (resp.Body.Close, bc.Close, tree.Close), each only if its defer statement
\* was reached.
BuildReturns(out, e, resp) ==
    /\ pc' = "built"
    /\ bo' = out
    /\ buildErr' = e
    /\ buildResp' = IF resp.opened THEN [resp EXCEPT !.closed = TRUE] ELSE resp
    /\ archive' = IF archive = "open" THEN "closed" ELSE archive
    /\ tree' = IF tree = "open" THEN "closed" ELSE tree
    /\ treeCloses' = IF tree = "open" THEN treeCloses + 1 ELSE treeCloses

\* Lines 170-178: the tag is composed (sanitizeTaskID panics on the empty
\* identifier) and the staging tree is created.
BuildEntry ==
    /\ pc = "build"
    /\ IF sanitizeTaskID(taskID) = Panics
       THEN /\ pc' = "panic"
            /\ UNCHANGED <<buildVars, faults>>
       ELSE /\ tag' = ComposeTag(b.auth.Repo, taskID, version)
            /\ \/ /\ tree' = "open"
                  /\ pc' = "dockerfile"
                  /\ UNCHANGED <<treeCloses, archive, buildResp, bo, buildErr,
                                 faults>>
               \/ /\ BuildReturns("", Wrap(<<"tmpdir">>, "new tree"), buildResp)
                  /\ Fault("staging")
            /\ UNCHANGED <<recipe, staged, opts, images>>
    /\ UNCHANGED <<auxVars, ctxVars, inputVars, localVars, pushVars, err, worldVars, calls,
                   stages>>

\* Lines 180-187.
BuildSynthesize ==
    /\ pc = "dockerfile"
    /\ \E r \in BuildDockerfile([Builder |-> b.name, Root |-> b.root,
                                 Args |-> b.args], rootFiles) :
         IF r.err # NoErr
         THEN /\ BuildReturns("", Wrap(r.err, "creating dockerfile"), buildResp)
              /\ Fault("synthesis")
              /\ stages' = WholeStage("synthesis", "failed")
              /\ UNCHANGED recipe
         ELSE /\ recipe' = r.buf
              /\ stages' = WholeStage("synthesis", "ok")
              /\ pc' = "write"
              /\ UNCHANGED <<tree, treeCloses, archive, buildResp, bo, buildErr,
                             faults>>
    /\ UNCHANGED <<auxVars, ctxVars, inputVars, localVars, tag, staged, opts, images,
                   pushVars, err, worldVars, calls>>

\* Build as it would be if the Dockerfile were written into the root.
TreeWrite_WritesIntoRoot ==
    /\ pc = "write"
    /\ \/ /\ rootFiles' = rootFiles \cup {"Dockerfile"}
          /\ stages' = StartStage("context")
          /\ pc' = "copy"
          /\ UNCHANGED <<tree, treeCloses, archive, buildResp, bo, buildErr,
                         faults>>
       \/ /\ BuildReturns("", Wrap(<<"io">>, "writing dockerfile"), buildResp)
          /\ Fault("context")
          /\ stages' = WholeStage("context", "failed")
          /\ UNCHANGED rootFiles
    /\ UNCHANGED <<auxVars, ctxVars, taskID, def, root, localVars, tag, recipe,
                   staged, opts, images, pushVars, err, worldVars, calls>>

\* Lines 189-191: tree.Write("Dockerfile", buf).
TreeWrite ==
    /\ pc = "write"
    /\ \/ /\ staged' = staged \cup {"Dockerfile"}
          /\ stages' = StartStage("context")
          /\ pc' = "copy"
          /\ UNCHANGED <<tree, treeCloses, archive, buildResp, bo, buildErr,
                         faults>>
       \/ /\ BuildReturns("", Wrap(<<"io">>, "writing dockerfile"), buildResp)
          /\ Fault("context")
          /\ stages' = WholeStage("context", "failed")
          /\ UNCHANGED staged
    /\ UNCHANGED <<auxVars, ctxVars, inputVars, localVars, tag, recipe, opts, images,
                   pushVars, err, worldVars, calls>>

\* Build as it would be if it went on after a failed copy of the root.
TreeCopy_ProceedsOnError ==
    /\ pc = "copy"
    /\ \/ /\ staged' = staged \cup rootFiles
          /\ UNCHANGED faults
       \/ /\ \E part \in SUBSET rootFiles : staged' = staged \cup part
          /\ Fault("context")
    /\ pc' = "archive"
    /\ UNCHANGED <<auxVars, ctxVars, inputVars, localVars, tag, tree, treeCloses,
                   recipe, archive, opts, buildResp, images, bo, buildErr,
                   pushVars, err, worldVars, calls, stages>>

\* Lines 193-195: tree.Copy(b.root); a failed copy may leave part of the
\* root in staging.
TreeCopy ==
    /\ pc = "copy"
    /\ \/ /\ staged' = staged \cup rootFiles
          /\ pc' = "archive"
          /\ UNCHANGED <<tree, treeCloses, archive, buildResp, bo, buildErr,
                         stages, faults>>
       \/ /\ \E part \in SUBSET rootFiles : staged' = staged \cup part
          /\ BuildReturns("", Wrap(<<"io">>, "copy"), buildResp)
          /\ Fault("context")
          /\ stages' = EndStage("failed")
    /\ UNCHANGED <<auxVars, ctxVars, inputVars, localVars, tag, recipe, opts, images,
                   pushVars, err, worldVars, calls>>

\* authconfigs and registryAuth, lines 263-276.
registryAuth(auth) == [Username |-> "oauth2accesstoken", Password |-> auth.Token]

authconfigs(auth) == [h \in {Str(host(auth.Repo))} |-> registryAuth(auth)]

\* Lines 197-208: tree.Archive() and the options of the build request.
TreeArchive ==
    /\ pc = "archive"
    /\ \/ /\ archive' = "open"
          /\ opts' = [Tags |-> <<tag>>, BuildArgs |-> EmptyMap,
                      Platform |-> "linux/amd64",
                      AuthConfigs |-> authconfigs(b.auth)]
          /\ stages' = EndStage("ok")
          /\ pc' = "imagebuild"
          /\ UNCHANGED <<tree, treeCloses, buildResp, bo, buildErr, faults>>
       \/ /\ BuildReturns("", Wrap(<<"io">>, "archive tree"), buildResp)
          /\ Fault("context")
          /\ stages' = EndStage("failed")
          /\ UNCHANGED opts
    /\ UNCHANGED <<auxVars, ctxVars, inputVars, localVars, tag, recipe, staged, images,
                   pushVars, err, worldVars, calls>>

\* Line 210: the build request is sent.
ImageBuildCall ==
    /\ pc = "imagebuild"
    /\ calls' = Append(calls, [op |-> "build", tag |-> opts.Tags[1]])
    /\ stages' = StartStage("build")
    /\ pc' = "build_inflight"
    /\ UNCHANGED <<auxVars, ctxVars, inputVars, localVars, buildVars, pushVars, err,
                   worldVars, faults>>

\* ImageBuild as it would be with one retry after a transport error.
ImageBuildReturn_Retries ==
    /\ pc = "build_inflight"
    /\ \/ /\ ~ctxDone
          /\ \E s \in Streams : buildResp' = OpenResp(s)
          /\ pc' = "copy_output"
          /\ UNCHANGED <<tree, treeCloses, archive, bo, buildErr, stages, faults>>
       \/ /\ faults = <<>>
          /\ Fault("build")
          /\ pc' = "imagebuild"
          /\ stages' = EndStage("failed")
          /\ UNCHANGED <<tree, treeCloses, archive, buildResp, bo, buildErr>>
       \/ /\ faults # <<>>
          /\ BuildReturns("", Wrap(<<"transport">>, "image build"), buildResp)
          /\ Fault("build")
          /\ stages' = EndStage("failed")
    /\ UNCHANGED <<auxVars, ctxVars, inputVars, localVars, tag, recipe, staged, opts,
                   images, pushVars, err, worldVars, calls>>

\* Lines 210-214: the build request returns: a response whose body streams
\* the progress, or a transport error.  A cancelled context aborts the call.
ImageBuildReturn ==
    /\ pc = "build_inflight"
    /\ \/ /\ ~ctxDone
          /\ \E s \in Streams : buildResp' = OpenResp(s)
          /\ pc' = "copy_output"
          /\ UNCHANGED <<tree, treeCloses, archive, bo, buildErr, stages, faults>>
       \/ /\ BuildReturns("", Wrap(<<"transport">>, "image build"), buildResp)
          /\ Fault("build")
          /\ stages' = EndStage("failed")
    /\ UNCHANGED <<auxVars, ctxVars, inputVars, localVars, tag, recipe, staged, opts,
                   images, pushVars, err, worldVars, calls>>

\* The engine after it built and tagged an image: the tag moves to the new
\* image.
EngineBuilt(e, t) == {img \ {t} : img \in e} \cup {{t}}

\* The copy of the build output as it would be with its error dropped.
CopyOutput_IgnoresCopyError ==
    /\ pc = "copy_output"
    /\ \E built \in BOOLEAN :
         /\ engine' = IF built THEN EngineBuilt(engine, tag) ELSE engine
         /\ builtByThis' = built
    /\ \/ /\ ~ctxDone
          /\ buildResp' = [buildResp EXCEPT !.drained = TRUE]
          /\ stages' = EndStage("ok")
          /\ UNCHANGED faults
       \/ /\ Fault("stream copy")
          /\ stages' = EndStage("failed")
          /\ UNCHANGED buildResp
    /\ pc' = "imagelist"
    /\ UNCHANGED <<auxVars, ctxVars, inputVars, localVars, tag, tree, treeCloses, recipe,
                   staged, archive, opts, images, bo, buildErr, pushVars, err,
                   registryStore, calls>>

\* The copy of the build output as it would be if it read the stream and
\* aborted on an error message in it.
CopyOutput_AbortsOnStreamError ==
    /\ pc = "copy_output"
    /\ \E built \in BOOLEAN :
         /\ engine' = IF built THEN EngineBuilt(engine, tag) ELSE engine
         /\ builtByThis' = built
    /\ \/ /\ ~ctxDone
          /\ buildResp.stream = "progress"
          /\ buildResp' = [buildResp EXCEPT !.drained = TRUE]
          /\ stages' = EndStage("ok")
          /\ pc' = "imagelist"
          /\ UNCHANGED <<tree, treeCloses, archive, bo, buildErr, faults>>
       \/ /\ ~ctxDone
          /\ buildResp.stream # "progress"
          /\ BuildReturns("", <<"build failed", buildResp.stream>>,
                          [buildResp EXCEPT !.drained = TRUE])
          /\ stages' = EndStage("failed")
          /\ UNCHANGED faults
       \/ /\ BuildReturns("", Wrap(<<"read">>, "copy output"), buildResp)
          /\ Fault("stream copy")
          /\ stages' = EndStage("failed")
    /\ UNCHANGED <<auxVars, ctxVars, inputVars, localVars, tag, recipe, staged, opts,
                   images, pushVars, err, registryStore, calls>>

\* Lines 216-220: io.Copy(b.writer, resp.Body).  The stream is copied as it
\* is: whether the engine built the image or reported an error inside the
\* stream makes no difference to the copy.  A read error (a cancelled context
\* is one) fails it.
CopyOutput ==
    /\ pc = "copy_output"
    /\ \E built \in BOOLEAN :
         /\ engine' = IF built THEN EngineBuilt(engine, tag) ELSE engine
         /\ builtByThis' = built
    /\ \/ /\ ~ctxDone
          /\ buildResp' = [buildResp EXCEPT !.drained = TRUE]
          /\ stages' = EndStage("ok")
          /\ pc' = "imagelist"
          /\ UNCHANGED <<tree, treeCloses, archive, bo, buildErr, faults>>
       \/ /\ BuildReturns("", Wrap(<<"read">>, "copy output"), buildResp)
          /\ Fault("stream copy")
          /\ stages' = EndStage("failed")
    /\ UNCHANGED <<auxVars, ctxVars, inputVars, localVars, tag, recipe, staged, opts,
                   images, pushVars, err, registryStore, calls>>

\* Line 222: the list request is sent.
ImageListCall ==
    /\ pc = "imagelist"
    /\ calls' = Append(calls, [op |-> "list", tag |-> ""])
    /\ stages' = StartStage("verify")
    /\ pc' = "list_inflight"
    /\ UNCHANGED <<auxVars, ctxVars, inputVars, localVars, buildVars, pushVars, err,
                   worldVars, faults>>

\* Lines 222-225: the list request returns the engine's images, or fails.
ImageListReturn ==
    /\ pc = "list_inflight"
    /\ \/ /\ ~ctxDone
          /\ images' = Ptr(engine)
          /\ pc' = "verify"
          /\ UNCHANGED <<tree, treeCloses, archive, buildResp, bo, buildErr,
                         stages, faults>>
       \/ /\ BuildReturns("", Wrap(<<"transport">>, "image list"), buildResp)
          /\ Fault("list")
          /\ stages' = EndStage("failed")
          /\ UNCHANGED images
    /\ UNCHANGED <<auxVars, ctxVars, inputVars, localVars, tag, recipe, staged, opts,
                   pushVars, err, worldVars, calls>>

\* The search as it would be if the listed tags were compared with the tag
\* less its version.
FindTag_ComparesUnversioned(imgs, t) == {x \in UNION imgs : x \o ":latest" = t}

\* Lines 227-237: the search of the listing for the tag.
FindTag(imgs, t) == {x \in UNION imgs : x = t}

\* Build as it would be if it returned the tag without searching the listing.
BuildVerify_Speculative ==
    /\ pc = "verify"
    /\ BuildReturns(tag, NoErr, buildResp)
    /\ stages' = EndStage("ok")
    /\ UNCHANGED <<auxVars, ctxVars, inputVars, localVars, tag, recipe, staged, opts,
                   images, pushVars, err, worldVars, calls, faults>>

BuildVerify ==
    /\ pc = "verify"
    /\ IF FindTag(images[1], tag) # {}
       THEN /\ BuildReturns(CHOOSE x \in FindTag(images[1], tag) : TRUE, NoErr,
                            buildResp)
            /\ stages' = EndStage("ok")
            /\ UNCHANGED faults
       ELSE /\ BuildReturns("", <<"image with the tag was not found", tag>>,
                            buildResp)
            /\ Fault("verify")
            /\ stages' = EndStage("failed")
    /\ UNCHANGED <<auxVars, ctxVars, inputVars, localVars, tag, recipe, staged, opts,
                   images, pushVars, err, worldVars, calls>>

(***************************************************************************)
(* Local, lines 43-55, and Builder.Push, part_000 lines 241-261.            *)
(***************************************************************************)
\* Local as it would be if it went on to push whatever Build returned.
LocalAfterBuild_IgnoresError ==
    /\ pc = "built"
    /\ pc' = "push"
    /\ UNCHANGED <<auxVars, ctxVars, inputVars, localVars, buildVars, pushVars, err,
                   worldVars, calls, stages, faults>>

\* Local, lines 44-49: a failed Build ends the invocation.
LocalAfterBuild ==
    /\ pc = "built"
    /\ IF buildErr # NoErr
       THEN LocalReturns(Wrap(buildErr, "build"))
       ELSE /\ pc' = "push"
            /\ UNCHANGED err
    /\ UNCHANGED <<auxVars, ctxVars, inputVars, localVars, buildVars, pushVars, worldVars,
                   calls, stages, faults>>

\* The push payload as it would be if the JSON were sent without the base64
\* encoding.
AuthPayload_NotEncoded(auth) ==
    "{\"username\":\"" \o registryAuth(auth).Username
        \o "\",\"password\":\"" \o registryAuth(auth).Password \o "\"}"

\* json.Marshal of the AuthConfig, then base64.URLEncoding.
AuthPayload(auth) ==
    "base64({\"username\":\"" \o registryAuth(auth).Username
        \o "\",\"password\":\"" \o registryAuth(auth).Password \o "\"})"

\* Push, lines 242-249: the push request for Local's bo.Tag is sent.
ImagePushCall ==
    /\ pc = "push"
    /\ pushAuth' = AuthPayload(b.auth)
    /\ calls' = Append(calls, [op |-> "push", tag |-> bo])
    /\ stages' = StartStage("push")
    /\ pc' = "push_inflight"
    /\ UNCHANGED <<auxVars, ctxVars, inputVars, localVars, buildVars, pushResp, err,
                   worldVars, faults>>

\* Push, lines 247-253, and Local, lines 50-52.
ImagePushReturn ==
    /\ pc = "push_inflight"
    /\ \/ /\ ~ctxDone
          /\ \E s \in Streams : pushResp' = OpenResp(s)
          /\ pc' = "push_copy"
          /\ UNCHANGED <<err, stages, faults>>
       \/ /\ LocalReturns(Wrap(<<"transport">>, "push"))
          /\ Fault("push")
          /\ stages' = EndStage("failed")
          /\ UNCHANGED pushResp
    /\ UNCHANGED <<auxVars, ctxVars, inputVars, localVars, buildVars, pushAuth, worldVars,
                   calls>>

\* Push, lines 255-260, and Local, lines 50-54: io.Copy(b.writer, resp), the
\* deferred resp.Close, and Local's return.  Whether the registry stored the
\* image or refused it inside the stream makes no difference to the copy.
PushCopy ==
    /\ pc = "push_copy"
    /\ \E stored \in BOOLEAN :
         registryStore' = IF stored /\ bo \in UNION engine
                          THEN registryStore \cup {bo} ELSE registryStore
    /\ \/ /\ ~ctxDone
          /\ pushResp' = [pushResp EXCEPT !.drained = TRUE, !.closed = TRUE]
          /\ stages' = EndStage("ok")
          /\ LocalReturns(NoErr)
          /\ UNCHANGED faults
       \/ /\ pushResp' = [pushResp EXCEPT !.closed = TRUE]
          /\ stages' = EndStage("failed")
          /\ LocalReturns(Wrap(Wrap(<<"read">>, "image push"), "push"))
          /\ Fault("push")
    /\ UNCHANGED <<auxVars, ctxVars, inputVars, localVars, buildVars, pushAuth, engine,
                   builtByThis, calls>>

Next ==
    \/ Cancel
    \/ LocalCall
    \/ GetRegistryToken
    \/ GetBuildEnvStep
    \/ GetBuildEnvReturn
    \/ LocalKind
    \/ LocalNew
    \/ BuildEntry
    \/ BuildSynthesize
    \/ TreeWrite
    \/ TreeCopy
    \/ TreeArchive
    \/ ImageBuildCall
    \/ ImageBuildReturn
    \/ CopyOutput
    \/ ImageListCall
    \/ ImageListReturn
    \/ BuildVerify
    \/ LocalAfterBuild
    \/ ImagePushCall
    \/ ImagePushReturn
    \/ PushCopy

Spec == Init /\ [][Next]_vars

(***************************************************************************)
(* The Builder used directly: a caller makes a Config of its own, calls New *)
(* and then Build with a task identifier and a version.  The caller never   *)
(* cancels the context here.                                                *)
(***************************************************************************)
\* Config.Builder: unset, the five names BuildDockerfile knows, and one it
\* does not.
BuilderNames == {"", "go", "deno", "python", "node", "docker", "shell"}

\* Options that name no entrypoint, or one that is not a string.
NoEntrypointOptions ==
    { [k \in {"shim"} |-> "true"],
      [k \in {"entrypoint"} |-> "int(1)"],
      [k \in {"entrypoint", "shim"} |-> IF k = "shim" THEN "true" ELSE "int(1)"] }

\* Config.Args: a nil map, or the options of a python task.
ArgsChoices == {NilPtr} \cup {Ptr(o) : o \in PyOptions \cup NoEntrypointOptions}

\* Config.Auth: nil, or the auth of a registry.
AuthChoices ==
    {NilPtr} \cup {Ptr(r) : r \in Registries \cup {[Token |-> "tok2", Repo |-> <<"R">>]}}

\* Config.Writer: nil, or a writer of the caller.
WriterChoices == {NilPtr, Ptr("buffer")}

Configs ==
    [Root : Roots, Builder : BuilderNames, Args : ArgsChoices, Auth : AuthChoices,
     Writer : WriterChoices]

\* Build's version argument.
Versions == {"latest", "v2"}

\* The caller calls New(c), part_000 lines 118-155.
BuilderNew ==
    /\ pc = "start"
    /\ \E c \in Configs :
         /\ config' = Ptr(c)
         /\ \E r \in New(c) :
              /\ dockerClients' = dockerClients + r.clients
              /\ IF r.err # NoErr
                 THEN /\ pc' = "done"
                      /\ err' = r.err
                      /\ Fault("configuration")
                      /\ UNCHANGED b
                 ELSE /\ b' = r.b
                      /\ pc' = "ready"
                      /\ UNCHANGED <<err, faults>>
    /\ UNCHANGED <<auxVars, ctxVars, inputVars, registry, buildEnv, envTodo,
                   configCalls, kind, options, version, buildVars, pushVars,
                   worldVars, calls, stages>>

\* The caller calls b.Build(ctx, taskID, version), part_000 line 169.
BuilderBuild ==
    /\ pc = "ready"
    /\ \E id \in TaskIDs, v \in Versions :
         /\ taskID' = id
         /\ version' = v
    /\ pc' = "build"
    /\ UNCHANGED <<auxVars, ctxVars, def, root, rootFiles, registry, buildEnv,
                   envTodo, configCalls, kind, options, b, config, dockerClients,
                   buildVars, pushVars, err, worldVars, calls, stages, faults>>

NextBuilder ==
    \/ BuilderNew
    \/ BuilderBuild
    \/ BuildEntry
    \/ BuildSynthesize
    \/ TreeWrite
    \/ TreeCopy
    \/ TreeArchive
    \/ ImageBuildCall
    \/ ImageBuildReturn
    \/ CopyOutput
    \/ ImageListCall
    \/ ImageListReturn
    \/ BuildVerify

SpecBuilder == Init /\ [][NextBuilder]_vars

(***************************************************************************)
(* sanitizeTaskID applied on its own, to identifiers longer than those the  *)
(* pipeline is run on.                                                      *)
(***************************************************************************)
\* Local is not running.
Parked == InitLocal /\ rootFiles = {} /\ engine = {}

\* Longest identifier (in characters) sanitizeTaskID is applied to.
MaxSanLen == 4

\* The characters of these identifiers: those of the task identifiers and a
\* character that is neither a letter nor a digit.
SanChars == IdChars \cup {"-"}

SanIDs == UNION {[1..n -> SanChars] : n \in 0..MaxSanLen}

InitSanitize ==
    /\ Parked
    /\ ConcIdle
    /\ ApiIdle
    /\ DeployIdle
    /\ ValIdle
    /\ sanIn \in SanIDs
    /\ sanOut = NilPtr
    /\ sanAgain = NilPtr

\* sanitizeTaskID(sanIn) is called.
SanitizeCall ==
    /\ sanOut = NilPtr
    /\ sanOut' = Ptr(sanitizeTaskID(sanIn))
    /\ UNCHANGED <<localRunVars, valVars, deployVars, concVars, apiVars, sanIn, sanAgain>>

\* sanitizeTaskID is called on what it returned.
SanitizeAgain ==
    /\ sanOut # NilPtr
    /\ sanOut[1] # Panics
    /\ sanAgain = NilPtr
    /\ sanAgain' = Ptr(sanitizeTaskID(sanOut[1]))
    /\ UNCHANGED <<localRunVars, valVars, deployVars, concVars, apiVars, sanIn, sanOut>>

NextSanitize == SanitizeCall \/ SanitizeAgain

SpecSanitize == InitSanitize /\ [][NextSanitize]_vars

(***************************************************************************)
(* Concurrent invocations of Build for distinct task identifiers, in one    *)
(* process: they share the engine (and, behind it, the registry); each has  *)
(* its own locals.  Build is taken in its larger steps.                     *)
(***************************************************************************)
\* The repository every invocation of the process pushes to.
ConcRepo == <<"r", "/", "p">>

SetRun(i, r) == runs' = [runs EXCEPT ![i] = r]

\* Build is called for a task identifier no other invocation is for; lines
\* 170-172 compose the tag.
ConcBuildCall(i) ==
    /\ runs[i].pc = "idle"
    /\ \E id \in TaskIDs \ {<<>>} :
         /\ \A j \in Invocations \ {i} : runs[j].taskID # id
         /\ SetRun(i, [runs[i] EXCEPT !.pc = "tree", !.taskID = id,
                                      !.tag = ComposeTag(ConcRepo, id, "latest")])
    /\ UNCHANGED <<localRunVars, valVars, deployVars, sanVars, apiVars, dockerd, tmpDirs, pushed>>

\* Lines 174-178: NewTree makes a temporary directory of its own.
ConcNewTree(i) ==
    /\ runs[i].pc = "tree"
    /\ tmpDirs' = tmpDirs + 1
    /\ SetRun(i, [runs[i] EXCEPT !.pc = "archive", !.tree = tmpDirs + 1])
    /\ UNCHANGED <<localRunVars, valVars, deployVars, sanVars, apiVars, dockerd, pushed>>

\* Lines 180-201: the recipe and the root are put into the tree, and the
\* tree is archived.
ConcArchive(i) ==
    /\ runs[i].pc = "archive"
    /\ SetRun(i, [runs[i] EXCEPT !.pc = "imagebuild", !.archive = runs[i].tree])
    /\ UNCHANGED <<localRunVars, valVars, deployVars, sanVars, apiVars, dockerd, tmpDirs, pushed>>

\* Lines 203-220: the build request; the engine tags the image it builds,
\* if it builds one.
ConcImageBuild(i) ==
    /\ runs[i].pc = "imagebuild"
    /\ \E built \in BOOLEAN :
         dockerd' = IF built
                    THEN [t \in DOMAIN dockerd \cup {runs[i].tag} |->
                            IF t = runs[i].tag THEN i ELSE dockerd[t]]
                    ELSE dockerd
    /\ SetRun(i, [runs[i] EXCEPT !.pc = "verify"])
    /\ UNCHANGED <<localRunVars, valVars, deployVars, sanVars, apiVars, tmpDirs, pushed>>

\* Lines 222-237: the listing is searched for the tag.
ConcVerify(i) ==
    /\ runs[i].pc = "verify"
    /\ IF runs[i].tag \in DOMAIN dockerd
       THEN SetRun(i, [runs[i] EXCEPT !.pc = "push", !.bo = runs[i].tag,
                                     !.verified = dockerd[runs[i].tag]])
       ELSE SetRun(i, [runs[i] EXCEPT !.pc = "done",
                         !.err = <<"image with the tag was not found", runs[i].tag>>])
    /\ UNCHANGED <<localRunVars, valVars, deployVars, sanVars, apiVars, dockerd, tmpDirs, pushed>>

\* Push, lines 241-261: the engine pushes the image the tag names now.
ConcPush(i) ==
    /\ runs[i].pc = "push"
    /\ pushed' = IF runs[i].bo \in DOMAIN dockerd
                 THEN [t \in DOMAIN pushed \cup {runs[i].bo} |->
                         IF t = runs[i].bo THEN dockerd[t] ELSE pushed[t]]
                 ELSE pushed
    /\ SetRun(i, [runs[i] EXCEPT !.pc = "done"])
    /\ UNCHANGED <<localRunVars, valVars, deployVars, sanVars, apiVars, dockerd, tmpDirs>>

InitConcurrent == Parked /\ SanIdle /\ ConcIdle /\ ApiIdle /\ DeployIdle /\ ValIdle

NextConcurrent ==
    \E i \in Invocations :
        \/ ConcBuildCall(i)
        \/ ConcNewTree(i)
        \/ ConcArchive(i)
        \/ ConcImageBuild(i)
        \/ ConcVerify(i)
        \/ ConcPush(i)

SpecConcurrent == InitConcurrent /\ [][NextConcurrent]_vars

(***************************************************************************)
(* Properties.                                                              *)
(***************************************************************************)
\* Build has returned to Local.
BuildHasReturned ==
    \/ pc \in {"built", "push", "push_inflight", "push_copy"}
    \/ pc = "done" /\ tag # ""

\* A push request has been sent to the engine.
PushIssued == \E i \in DOMAIN calls : calls[i].op = "push"

\* The number of requests of one kind sent to the engine.
Issued(op) == Cardinality({i \in DOMAIN calls : calls[i].op = op})

NotFound == <<"image with the tag was not found", tag>>

\* C1: when the build call returned without a transport error, its stream
\* was copied and the listing the engine returned does not hold the composed
\* tag, Build fails with the image-not-found error (and an empty
\* BuildOutput), Local returns that error, and no push request is ever sent.
C1_TagAbsentNoPush ==
    (images # NilPtr /\ buildResp.drained /\ FindTag(images[1], tag) = {}) =>
        /\ ~PushIssued
        /\ pc \in {"verify", "built", "done"}
        /\ (pc \in {"built", "done"} => buildErr = NotFound /\ bo = "")
        /\ (pc = "done" => err = Wrap(NotFound, "build"))

C1_Witness ==
    /\ pc = "done"
    /\ images # NilPtr
    /\ buildResp.drained
    /\ tag \notin UNION images[1]
    /\ err = Wrap(NotFound, "build")

\* C2: whenever Local returns nil, this build produced an image bearing the
\* composed tag, the engine holds it, and the push stored it in the registry.
C2_SuccessMeansArtifactExists ==
    (pc = "done" /\ err = NoErr) =>
        /\ builtByThis
        /\ tag \in UNION engine
        /\ tag \in registryStore

\* C3: once Build has returned: with a nil error the returned Tag is not
\* empty, equals the composed tag repo/task-sanitized(id):latest and is an
\* element of the listing obtained after the build call; with an error the
\* returned BuildOutput is empty.
C3_BuildOutputOnlyOnPresence ==
    BuildHasReturned =>
        /\ buildErr = NoErr =>
              /\ bo # ""
              /\ bo = ComposeTag(registry.Repo, taskID, "latest")
              /\ images # NilPtr
              /\ bo \in UNION images[1]
              /\ Issued("list") = 1
        /\ buildErr # NoErr => bo = ""

C3_Witness ==
    /\ pc = "built"
    /\ buildErr = NoErr
    /\ bo = "r/p/task-b:latest"
    /\ bo \in UNION images[1]

\* The order of the pipeline's stages.
StageOrder == <<"env", "synthesis", "context", "build", "verify", "push">>

\* C4: the stages of one invocation start in the order env resolution,
\* recipe synthesis, context assembly, engine build, listing/verification,
\* push; when a stage starts every earlier stage has completed successfully,
\* so at most one stage (the last started) is running.
C4_StagesInOrder ==
    /\ Len(stages) <= Len(StageOrder)
    /\ \A i \in DOMAIN stages :
          /\ stages[i].name = StageOrder[i]
          /\ i < Len(stages) => stages[i].st = "ok"

C4_Witness ==
    /\ Len(stages) = Len(StageOrder)
    /\ stages[Len(stages)] = [name |-> "push", st |-> "running"]

\* The lifecycle state of the invocation, read off the position in Build and
\* Local: Building while the build request and its stream are in flight,
\* Built once the stream is copied, TagVerified once the tag was found in
\* the listing, Pushed once Push returned nil, Failed once an error (or the
\* panic) ended it.
Lifecycle ==
    CASE pc = "panic" -> "Failed"
      [] pc = "done" -> IF err = NoErr THEN "Pushed" ELSE "Failed"
      [] pc = "built" -> IF buildErr = NoErr THEN "TagVerified" ELSE "Failed"
      [] pc \in {"push", "push_inflight", "push_copy"} -> "TagVerified"
      [] pc \in {"imagelist", "list_inflight", "verify"} -> "Built"
      [] pc \in {"build_inflight", "copy_output"} -> "Building"
      [] OTHER -> "Pending"

LifecycleOrder == <<"Pending", "Building", "Built", "TagVerified", "Pushed">>

LifecycleStep(s, t) ==
    \/ s = t
    \/ \E i \in 1..(Len(LifecycleOrder) - 1) :
          s = LifecycleOrder[i] /\ t = LifecycleOrder[i + 1]
    \/ t = "Failed" /\ s \notin {"Pushed", "Failed"}

\* C5: the lifecycle moves only one step at a time along Pending ->
\* Building -> Built -> TagVerified -> Pushed; Failed is entered only from a
\* state before Pushed; nothing leaves Failed or Pushed.
C5_LifecycleSteps == [][LifecycleStep(Lifecycle, Lifecycle')]_vars

C5_Witness ==
    /\ Lifecycle = "Pushed"
    /\ Len(calls) = 3

\* C6: once any stage has failed (registry token, env resolution,
\* kind/options, configuration, staging, synthesis, context assembly, build,
\* stream copy, listing, verification, push) nothing more is executed: it is
\* the only failure, the code is returning, Local's result is a non-nil
\* error, no engine call, stage, config lookup or staging write follows, and
\* a failed Build is never followed by a push.
C6_FailureAborts ==
    /\ [](faults # <<>> =>
            /\ Len(faults) = 1
            /\ pc \in {"built", "done"}
            /\ (pc = "built" => buildErr # NoErr)
            /\ (pc = "done" => err # NoErr))
    /\ [](buildErr # NoErr => ~PushIssued /\ pc \in {"built", "done"})
    /\ [][faults # <<>> =>
            /\ calls' = calls
            /\ stages' = stages
            /\ staged' = staged
            /\ configCalls' = configCalls
            /\ faults' = faults]_vars

C6_Witness ==
    /\ pc = "done"
    /\ faults = <<"list">>
    /\ err = Wrap(Wrap(<<"transport">>, "image list"), "build")

\* C7: a Build that acquired the staging tree has released it exactly once
\* when it returns, whichever stage failed or succeeded; the tree is never
\* released twice, and not before Build returns.
C7_StagingReleasedOnce ==
    /\ treeCloses <= 1
    /\ tree = "none" => treeCloses = 0
    /\ tree = "open" => treeCloses = 0 /\ ~BuildHasReturned
    /\ tree = "closed" => treeCloses = 1 /\ BuildHasReturned
    /\ (BuildHasReturned /\ faults # <<"staging">>) => tree = "closed"

C7_Witness ==
    /\ pc = "done"
    /\ faults = <<"context">>
    /\ tree = "closed"
    /\ treeCloses = 1

\* C8 as stated: the build response body is drained and closed before the
\* image-list call is made, and every response opened by Build is closed
\* before the push call is made.
C8_DrainedAndClosedBeforeNextCall ==
    /\ Issued("list") = 1 => buildResp.drained /\ buildResp.closed
    /\ Issued("push") = 1 => buildResp.drained /\ buildResp.closed

\* C8 as amended: the build response body is fully drained before the
\* image-list call is made, but it is still open then: it is closed when
\* Build returns, which is after the image-list call and before the push
\* call; the push response is closed when Push returns.
C8_DrainedThenClosedOnReturn ==
    /\ Issued("list") = 1 => buildResp.opened /\ buildResp.drained
    /\ pc \in {"list_inflight", "verify"} => ~buildResp.closed
    /\ (BuildHasReturned /\ buildResp.opened) => buildResp.closed
    /\ Issued("push") = 1 => buildResp.drained /\ buildResp.closed
    /\ (pc = "done" /\ pushResp.opened) => pushResp.closed

C8_Witness ==
    /\ pc = "push_inflight"
    /\ buildResp.opened /\ buildResp.drained /\ buildResp.closed

\* The positions at which an engine call is in flight.
InFlight ==
    {"build_inflight", "copy_output", "list_inflight", "push_inflight", "push_copy"}

\* The number of engine calls issued when the call in flight at p was.
CallsAt(p) ==
    CASE p \in {"build_inflight", "copy_output"} -> 1
      [] p = "list_inflight" -> 2
      [] OTHER -> 3

\* C9: when the context is cancelled while an engine call (build, list or
\* push) is in flight, that call fails, no later engine call is issued, the
\* invocation ends with an error and with the staging tree released, and
\* nothing is rolled back: no image leaves the engine or the registry.
C9_CancelAbortsInFlight ==
    /\ [](cancelledAt \in InFlight =>
            /\ Len(calls) = CallsAt(cancelledAt)
            /\ pc # cancelledAt =>
                  /\ Len(faults) = 1
                  /\ pc \in {"built", "done"}
            /\ pc = "done" => err # NoErr /\ tree = "closed" /\ treeCloses = 1)
    /\ [][(cancelledAt \in InFlight) =>
            /\ UNION engine \subseteq UNION engine'
            /\ registryStore \subseteq registryStore']_vars

C9_Witness ==
    /\ cancelledAt = "list_inflight"
    /\ pc = "done"
    /\ faults = <<"list">>

\* C10: each of the engine calls build, list-images and push is issued at
\* most once per invocation, in that order, and after a transport failure of
\* any of them no call is issued again.
C10_NoRetries ==
    /\ [](/\ \A op \in {"build", "list", "push"} : Issued(op) <= 1
          /\ \A i \in DOMAIN calls : calls[i].op = <<"build", "list", "push">>[i])
    /\ [][(faults # <<>> /\ faults[1] \in {"build", "stream copy", "list", "push"})
            => calls' = calls /\ pc' \in {"built", "done"}]_vars

C10_Witness ==
    /\ pc = "done"
    /\ faults = <<"push">>
    /\ Len(calls) = 3
    /\ err = Wrap(<<"transport">>, "push")

\* C11: concurrent invocations of Build for distinct task identifiers are
\* isolated from each other: each has a staging tree and an archive of its
\* own, and the image under the tag an invocation has built, the image that
\* satisfied its search of the listing and the image pushed under its tag
\* were never made by another invocation.
C11_InvocationsIsolated ==
    \A i \in Invocations : \A j \in Invocations \ {i} :
        /\ runs[i].tree # 0 => runs[i].tree # runs[j].tree
        /\ runs[i].archive # 0 => runs[i].archive # runs[j].archive
        /\ (runs[i].pc \in {"verify", "push", "done"} /\ runs[i].tag \in DOMAIN dockerd)
              => dockerd[runs[i].tag] # j
        /\ runs[i].verified # j
        /\ runs[i].bo \in DOMAIN pushed => pushed[runs[i].bo] # j

\* C12: what Build and Push return, and the engine calls that follow, are
\* decided by the failures of the calls and by the listing alone, whatever
\* bytes the engine streamed back.  Once the build response has been received
\* and Build has returned, Build failed exactly if the copy of the stream,
\* the list call or the search of the listing failed; a stream that was
\* copied to its end is followed by the list call; a listing that was
\* received decides the result by holding the tag or not.  Once the push
\* response has been received and Local has returned, the result is an error
\* exactly if the copy of the push stream failed.
C12_OutcomeIgnoresStream ==
    /\ (buildResp.opened /\ BuildHasReturned) =>
          /\ buildErr = NoErr <=> faults \in {<<>>, <<"push">>}
          /\ buildErr # NoErr => faults \in {<<"stream copy">>, <<"list">>, <<"verify">>}
          /\ buildResp.drained => Issued("list") = 1
          /\ images # NilPtr => (buildErr = NoErr <=> tag \in UNION images[1])
    /\ (pushResp.opened /\ pc = "done") =>
          /\ err = NoErr <=> faults = <<>>
          /\ err # NoErr => faults = <<"push">>

\* Build and Push succeed on streams that carry an error message.
C12_Witness ==
    /\ pc = "done"
    /\ err = NoErr
    /\ buildResp.stream = "progress;errorDetail"
    /\ pushResp.stream = "progress;errorDetail"

\* The names BuildDockerfile has a generator for.
KnownBuilders == {"go", "deno", "python", "node", "docker"}

\* BuildDockerfile has returned.
Synthesized == \E i \in DOMAIN stages : stages[i].name = "synthesis"

\* The Builder is of a known kind, its args name an entrypoint, and the root
\* does not hold that file.
EntrypointMissing ==
    /\ b # NoBuilder
    /\ b.name \in KnownBuilders
    /\ Arg(b.args, "entrypoint") # ""
    /\ Arg(b.args, "entrypoint") \notin rootFiles

\* C13: for every builder kind, when the root lacks the entrypoint file the
\* args name, synthesis fails with the missing-file error that names the
\* file, Build returns that error (wrapped, with an empty BuildOutput), and no
\* engine call (build, list, push) has been or is ever made.
C13_MissingEntrypointFails ==
    EntrypointMissing =>
        /\ calls = <<>>
        /\ recipe = <<>>
        /\ Synthesized =>
              /\ pc = "built"
              /\ bo = ""
              /\ buildErr = Wrap(<<"the file is required", Arg(b.args, "entrypoint")>>,
                                 "creating dockerfile")

C13_Witness ==
    /\ EntrypointMissing
    /\ b.name = "python"
    /\ Arg(b.args, "shim") # "true"
    /\ pc = "built"
    /\ buildErr = <<"creating dockerfile", "the file is required", "main.py">>

\* C14: for every builder name outside {go, deno, python, node, docker},
\* BuildDockerfile returns the unknown-builder error and an empty recipe, and
\* Build returns that error (wrapped, with an empty BuildOutput); no engine
\* call has been or is ever made and the engine holds what it held.
C14_UnknownBuilderFails ==
    (b # NoBuilder /\ b.name \notin KnownBuilders) =>
        /\ BuildDockerfile([Builder |-> b.name, Root |-> b.root, Args |-> b.args],
                           rootFiles)
             = {[buf |-> <<>>, err |-> <<"unknown builder type", b.name>>]}
        /\ calls = <<>>
        /\ recipe = <<>>
        /\ engine \in InitialEngines
        /\ Synthesized =>
              /\ pc = "built"
              /\ bo = ""
              /\ buildErr = <<"creating dockerfile", "unknown builder type", b.name>>

C14_Witness ==
    /\ pc = "built"
    /\ b.name = "shell"
    /\ buildErr = <<"creating dockerfile", "unknown builder type", "shell">>

\* C15: when writing the recipe into the staging tree, copying the root or
\* archiving the tree fails, Build returns an error with an empty
\* BuildOutput, no request has been or is ever sent to the engine, and the
\* staging tree has been released, once.
C15_ContextFailureStopsBuild ==
    faults = <<"context">> =>
        /\ pc \in {"built", "done"}
        /\ buildErr \in {<<"writing dockerfile", "io">>, <<"copy", "io">>,
                          <<"archive tree", "io">>}
        /\ bo = ""
        /\ calls = <<>>
        /\ opts = NoOpts
        /\ tree = "closed"
        /\ treeCloses = 1

\* The copy of the root failed half-way.
C15_Witness ==
    /\ faults = <<"context">>
    /\ buildErr = <<"copy", "io">>
    /\ staged = {"Dockerfile", "main.py"}
    /\ rootFiles = {"main.py", "requirements.txt", "main.go"}
    /\ pc = "done"

\* The Config New was called with is invalid: the root is not an absolute
\* path, or there is no auth.
InvalidConfig ==
    /\ config # NilPtr
    /\ ~IsAbs(config[1].Root) \/ config[1].Auth = NilPtr

\* C16: called with a Config whose Root is not absolute or whose Auth is nil,
\* New returns an error (the one of the first check that fails) and no
\* Builder, no engine client has been constructed and no engine call has been
\* or is ever made.
C16_NewFailsFast ==
    InvalidConfig =>
        /\ pc = "done"
        /\ err = IF ~IsAbs(config[1].Root) THEN <<"expected an absolute path">>
                 ELSE <<"builder requires registry auth">>
        /\ b = NoBuilder
        /\ dockerClients = 0
        /\ calls = <<>>
        /\ engine \in InitialEngines

C16_Witness ==
    /\ config # NilPtr
    /\ IsAbs(config[1].Root)
    /\ config[1].Auth = NilPtr
    /\ err = <<"builder requires registry auth">>
    /\ pc = "done"

\* C17: every Builder New returns has an absolute root, an auth, an args
\* map, a name that is not empty and a writer; what the Config gave is kept
\* as it was given, and what it did not give is the empty map, "manual" and
\* os.Stderr.
C17_BuilderInvariants ==
    b # NoBuilder =>
        LET c == config[1] IN
        /\ IsAbs(b.root) /\ b.root = c.Root
        /\ c.Auth # NilPtr /\ b.auth = c.Auth[1]
        /\ b.args = IF c.Args = NilPtr THEN EmptyMap ELSE c.Args[1]
        /\ b.name # "" /\ b.name = IF c.Builder = "" THEN "manual" ELSE c.Builder
        /\ b.writer # "" /\ b.writer = IF c.Writer = NilPtr THEN "os.Stderr"
                                        ELSE c.Writer[1]
        /\ dockerClients = 1

\* New has filled in every default.
C17_Witness ==
    /\ b # NoBuilder
    /\ config[1].Builder = "" /\ b.name = "manual"
    /\ config[1].Args = NilPtr /\ b.args = EmptyMap
    /\ config[1].Writer = NilPtr /\ b.writer = "os.Stderr"

\* C18: for an identifier that is not empty, sanitizeTaskID returns an
\* identifier of the same length; every character but the last is the
\* lower-case form of the character at its place, and the last is "a" if the
\* last character of the input is a digit and its lower-case form if not.
C18_SanitizeShape ==
    (sanOut # NilPtr /\ sanIn # <<>>) =>
        LET out == sanOut[1]
            n == Len(sanIn) IN
        /\ Len(out) = n
        /\ \A k \in 1..(n - 1) : out[k] = LowerChar(sanIn[k])
        /\ out[n] = IF sanIn[n] \in Digits THEN "a" ELSE LowerChar(sanIn[n])

\* "Ab11" becomes "ab1a": the digit in the middle stays.
C18_Witness ==
    /\ sanIn = <<"A", "b", "1", "1">>
    /\ sanOut = Ptr(<<"a", "b", "1", "a">>)

\* C19: Build called with the empty task identifier does not crash: it
\* returns an InvalidInput error to its caller.
C19_EmptyIdIsInvalidInput ==
    /\ pc # "panic"
    /\ (taskID = <<>> /\ version # "" /\ pc \in {"built", "done"}) =>
          buildErr = <<"InvalidInput">>

\* repo + "/task-" + sanitizeTaskID(taskID) + ":" + version for the call of
\* Build at hand.
ExpectedTag ==
    Str(b.auth.Repo) \o "/task-" \o Str(sanitizeTaskID(taskID)) \o ":" \o version

\* C20: for a task identifier that is not empty, the tag Build composes is
\* repo + "/task-" + sanitizeTaskID(taskID) + ":" + version, and that text,
\* as it is, is the one tag of the build request, the text searched for in
\* the listing and the tag of the BuildOutput.
C20_TagIsExact ==
    (b # NoBuilder /\ taskID # <<>> /\ tag # "") =>
        /\ tag = ExpectedTag
        /\ opts # NoOpts => opts.Tags = <<ExpectedTag>>
        /\ \A i \in DOMAIN calls : calls[i].op = "build" => calls[i].tag = ExpectedTag
        /\ (pc = "built" /\ buildErr = NoErr) =>
              bo = ExpectedTag /\ ExpectedTag \in UNION images[1]
        /\ faults = <<"verify">> =>
              /\ ExpectedTag \notin UNION images[1]
              /\ buildErr = <<"image with the tag was not found", ExpectedTag>>

\* A build of task "1" at version v2 for the repository "R".
C20_Witness ==
    /\ pc = "built"
    /\ buildErr = NoErr
    /\ taskID = <<"1">>
    /\ bo = "R/task-a:v2"
    /\ calls[1] = [op |-> "build", tag |-> "R/task-a:v2"]

\* The tag of Build, lines 170-172, in its parts: the repository, "/", the
\* name and ":" with the version.
TagRef(repo, id, v) ==
    repo \o <<"/", "task-">> \o sanitizeTaskID(id) \o <<":", v>>

\* C21: Local sends at most one push request, and only after Build returned
\* without error; the request is for the tag Build returned, which is the
\* composed tag found in the listing; its credential payload is the base64
\* encoding of the JSON of the username "oauth2accesstoken" with the registry
\* token as password, and the registry the pushed reference names is the
\* host the credentials of the build request were keyed by.
C21_PushExactTag ==
    /\ Issued("push") <= 1
    /\ \A i \in DOMAIN calls :
          calls[i].op = "push" =>
            /\ buildErr = NoErr
            /\ calls[i].tag = bo
            /\ bo = tag
            /\ bo = Str(TagRef(registry.Repo, taskID, "latest"))
            /\ bo \in UNION images[1]
            /\ pushAuth = "base64({\"username\":\"oauth2accesstoken\",\"password\":\""
                              \o registry.Token \o "\"})"
            /\ DOMAIN opts.AuthConfigs =
                  {Str(host(TagRef(registry.Repo, taskID, "latest")))}

C21_Witness ==
    /\ pc = "done"
    /\ err = NoErr
    /\ calls[3] = [op |-> "push", tag |-> "r/p/task-b:latest"]
    /\ pushAuth = "base64({\"username\":\"oauth2accesstoken\",\"password\":\"tok\"})"

\* h is what precedes the first "/" of repo, or repo when it has none.
IsHostOf(h, repo) ==
    \E n \in 0..Len(repo) :
        /\ h = SubSeq(repo, 1, n)
        /\ \A k \in 1..n : repo[k] # "/"
        /\ n = Len(repo) \/ repo[n + 1] = "/"

\* C22: the credential map of the build request has exactly one entry; its
\* key is what precedes the first "/" of the repository reference (the whole
\* reference when it has no "/"), and its value is the username
\* "oauth2accesstoken" with the token as password.
C22_OneCredentialPerHost ==
    opts # NoOpts =>
        /\ Cardinality(DOMAIN opts.AuthConfigs) = 1
        /\ \A k \in DOMAIN opts.AuthConfigs :
              /\ \E h \in {SubSeq(b.auth.Repo, 1, n) : n \in 0..Len(b.auth.Repo)} :
                    IsHostOf(h, b.auth.Repo) /\ k = Str(h)
              /\ opts.AuthConfigs[k] =
                    [Username |-> "oauth2accesstoken", Password |-> b.auth.Token]

\* The build request for the repository "r/p" carries the credentials of "r".
C22_Witness ==
    /\ Issued("build") = 1
    /\ b.auth.Repo = <<"r", "/", "p">>
    /\ DOMAIN opts.AuthConfigs = {"r"}
    /\ opts.AuthConfigs["r"].Password = "tok"

\* getBuildEnv has returned its map to Local.
EnvResolved == \E i \in DOMAIN stages : stages[i] = [name |-> "env", st |-> "ok"]

C24_EnvFailureAborts ==
    faults = <<"env">> =>
        /\ pc = "done"
        /\ err \in {<<"parse name">>, <<"get config">>}
        /\ buildEnv = EmptyMap
        /\ config = NilPtr
        /\ b = NoBuilder
        /\ dockerClients = 0
        /\ recipe = <<>>
        /\ tree = "none" /\ treeCloses = 0 /\ staged = {}
        /\ calls = <<>>
        /\ \A i \in DOMAIN stages : stages[i].name = "env"

\* The reference fails to resolve after the literal was copied.
C24_Witness ==
    /\ faults = <<"env">>
    /\ err = <<"get config">>
    /\ DOMAIN def.Env = {"BUILD_A", "B"}
    /\ envTodo = {}
    /\ pc = "done"

\* C25: every entry of the resolved env map is, with its value, among the
\* args of the Builder (which the Dockerfile synthesis reads) and among the
\* build arguments of the build request.
C25_EnvInBuildArgs ==
    /\ b # NoBuilder =>
          \A k \in DOMAIN buildEnv : k \in DOMAIN b.args /\ b.args[k] = buildEnv[k]
    /\ opts # NoOpts =>
          \A k \in DOMAIN buildEnv :
              k \in DOMAIN opts.BuildArgs /\ opts.BuildArgs[k] = buildEnv[k]

\* What may follow "BUILD_" in the names of the env entries used here.
NameTails == {"", "A", "B"}

\* strings.HasPrefix(k, "BUILD_").
StartsWithBuild(k) == \E t \in NameTails : k = "BUILD_" \o t

\* C26: getBuildEnv takes only the env entries whose name starts with
\* BUILD_: the map it builds has no other key, and the config service is
\* asked at most once for each entry that has such a name and a config
\* reference.
C26_OnlyBuildPrefixed ==
    /\ \A k \in DOMAIN buildEnv : StartsWithBuild(k)
    /\ Len(configCalls) <=
          Cardinality({k \in DOMAIN def.Env :
                          StartsWithBuild(k) /\ def.Env[k].Config # NilPtr})

\* The python generator has returned a recipe, in shim mode or not.
PythonRecipe(shimMode) ==
    /\ recipe # <<>>
    /\ b.name = "python"
    /\ (Arg(b.args, "shim") = "true") = shimMode

\* C27: in shim mode the python recipe writes the adapter script rendered for
\* the entrypoint and runs that adapter as its entrypoint; it copies
\* requirements.txt and installs from it exactly if the root holds a
\* requirements.txt, and never makes an empty one.
C27_ShimRecipe ==
    PythonRecipe(TRUE) =>
        LET r == recipe[1] IN
        /\ r.Shim = "shim(" \o Arg(b.args, "entrypoint") \o ")"
        /\ r.Entrypoint = ".airplane/shim.py"
        /\ r.PipInstall <=> "requirements.txt" \in rootFiles
        /\ r.CopyRequirements <=> "requirements.txt" \in rootFiles
        /\ ~r.EchoRequirements

\* A root with main.py and no requirements.txt.
C27_Witness ==
    /\ PythonRecipe(TRUE)
    /\ rootFiles = {"main.py"}
    /\ recipe[1].Shim = "shim(main.py)"
    /\ ~recipe[1].PipInstall

\* C28: when shim mode is off the python recipe has no adapter script, its
\* entrypoint is the user's entrypoint file in the working directory, it
\* always installs from requirements.txt, and it makes an empty
\* requirements.txt exactly if the root holds none.
C28_LegacyRecipe ==
    PythonRecipe(FALSE) =>
        LET r == recipe[1] IN
        /\ r.Shim = ""
        /\ r.Entrypoint = "/airplane/" \o Arg(b.args, "entrypoint")
        /\ r.PipInstall
        /\ r.EchoRequirements <=> "requirements.txt" \notin rootFiles
        /\ ~r.CopyRequirements

\* A root with main.py and requirements.txt.
C28_Witness ==
    /\ PythonRecipe(FALSE)
    /\ "requirements.txt" \in rootFiles
    /\ recipe[1].Entrypoint = "/airplane/main.py"
    /\ recipe[1].PipInstall
    /\ ~recipe[1].EchoRequirements

\* C29: no step of Local or Build changes the set of files under the root,
\* nor, once Local is called, the root path; what Build writes lands in the
\* open staging tree.
C29_RootReadOnly ==
    [][/\ rootFiles' = rootFiles
       /\ pc # "start" => root' = root
       /\ staged' # staged => tree = "open"]_vars

\* A finished run whose staging tree got the Dockerfile and the whole root.
C29_Witness ==
    /\ pc = "done"
    /\ err = NoErr
    /\ rootFiles = {"main.py"}
    /\ staged = {"Dockerfile", "main.py"}

(***************************************************************************)
(* The API client (src/unnamed/part_003).  A host is a sequence of the      *)
(* pieces of its text, so that appURL's replacements and the validity of    *)
(* the URL can be computed.                                                  *)
(***************************************************************************)
\* The constant Host, line 50.
Host == <<"api", ".", "airplane", ".", "dev">>

StageHost == <<"api", ".", "airstage", ".", "app">>

ClientHosts == { <<>>, StageHost, <<"bad", " ", "host">> }

Clients ==
    [Host : ClientHosts, Token : {"", "tok"}, APIKey : {"", "key"},
     TeamID : {"", "team"}]

\* Client.host, lines 408-413.
ClientHost(c) == IF c.Host # <<>> THEN c.Host ELSE Host

\* strings.ReplaceAll with a non-empty old.
RECURSIVE ReplaceAll(_, _, _)
ReplaceAll(s, old, new) ==
    IF Len(s) < Len(old) THEN s
    ELSE IF SubSeq(s, 1, Len(old)) = old
         THEN new \o ReplaceAll(SubSeq(s, Len(old) + 1, Len(s)), old, new)
         ELSE <<Head(s)>> \o ReplaceAll(Tail(s), old, new)

\* url.Parse and http.NewRequestWithContext reject a host with a space.
ValidHost(h) == \A i \in DOMAIN h : h[i] # " "

\* Client.appURL, lines 77-83: the error of url.Parse is dropped, so the
\* result is nil for a host that does not parse.
appURL(c) ==
    LET apphost == ReplaceAll(ReplaceAll(ClientHost(c), StageHost,
                                         <<"web", ".", "airstage", ".", "app">>),
                              <<"api">>, <<"app">>)
    IN IF ValidHost(apphost) THEN Ptr(<<"https://">> \o apphost) ELSE NilPtr

\* The methods modelled: what each hands to do (lines 116-118, 211-213,
\* 272-280).  RunTask's parameter values are of any type, so its payload may
\* be one json.Marshal rejects.
Endpoints ==
    { [name |-> "AuthInfo", method |-> "GET", path |-> "/auth/info",
       payload |-> NilPtr, reply |-> TRUE, query |-> EmptyMap],
      [name |-> "GetConfig", method |-> "POST", path |-> "/configs/get",
       payload |-> Ptr("GetConfigRequest"), reply |-> TRUE, query |-> EmptyMap],
      [name |-> "SetConfig", method |-> "POST", path |-> "/configs/set",
       payload |-> Ptr("SetConfigRequest"), reply |-> FALSE, query |-> EmptyMap],
      [name |-> "RunTask", method |-> "POST", path |-> "/tasks/execute",
       payload |-> Ptr("RunTaskRequest"), reply |-> TRUE, query |-> EmptyMap],
      [name |-> "RunTask", method |-> "POST", path |-> "/tasks/execute",
       payload |-> Ptr("RunTaskRequest with a channel"), reply |-> TRUE, query |-> EmptyMap] }

\* json.Marshal(payload), line 345.
Marshal(payload) ==
    IF payload = "RunTaskRequest with a channel"
    THEN [buf |-> "", err |-> <<"json: unsupported type">>]
    ELSE [buf |-> "json(" \o payload \o ")", err |-> NoErr]

\* The authentication headers as they would be if the team ID were not
\* required with an API key.
Authn_NoTeamCheck(c) ==
    IF c.Token = "" /\ c.APIKey = ""
    THEN [err |-> <<"api: authentication is missing">>, headers |-> EmptyMap]
    ELSE IF c.Token # ""
    THEN [err |-> NoErr, headers |-> ("X-Airplane-Token" :> c.Token)]
    ELSE [err |-> NoErr,
          headers |-> ("X-Airplane-API-Key" :> c.APIKey) @@
                      ("X-Team-ID" :> c.TeamID)]

\* do, lines 358-370: the authentication headers, or the error do returns.
Authn(c) ==
    IF c.Token = "" /\ c.APIKey = ""
    THEN [err |-> <<"api: authentication is missing">>, headers |-> EmptyMap]
    ELSE IF c.Token # ""
    THEN [err |-> NoErr, headers |-> ("X-Airplane-Token" :> c.Token)]
    ELSE IF c.TeamID = ""
    THEN [err |-> <<"api: team ID is missing">>, headers |-> EmptyMap]
    ELSE [err |-> NoErr,
          headers |-> ("X-Airplane-API-Key" :> c.APIKey) @@
                      ("X-Team-ID" :> c.TeamID)]

\* The URL do composes, line 341.
RequestURL(c, path) == Str(<<"https://">> \o ClientHost(c) \o <<"/v0", path>>)

\* What client.Do may return, line 374: an error and no response once the
\* retries are used up, or a response.
DoOutcomes ==
    { [NoHttpResp EXCEPT !.err = <<"giving up after 6 attempt(s)">>] } \cup
    { [NoHttpResp EXCEPT !.status = r[1], !.text = r[2], !.body = r[3]] :
        r \in { <<200, "200 OK", "json">>, <<200, "200 OK", "garbage">>,
                <<404, "404 Not Found", "json">>,
                <<503, "503 Service Unavailable", "garbage">> } }

\* Where do returns to: ListRuns goes on with its loop, line 187.
AfterDo == IF apiCall.name = "ListRuns" THEN "page" ELSE "returned"

\* strconv.FormatInt(n, 10) and its inverse, as the server reads it.
DecimalDigits == <<"0", "1", "2", "3", "4", "5", "6", "7", "8", "9">>

RECURSIVE FormatNat(_)
FormatNat(n) ==
    IF n < 10 THEN <<DecimalDigits[n + 1]>>
    ELSE FormatNat(n \div 10) \o <<DecimalDigits[(n % 10) + 1]>>

FormatInt(n) == IF n < 0 THEN <<"-">> \o FormatNat(0 - n) ELSE FormatNat(n)

DigitValue(d) == CHOOSE v \in 0..9 : DecimalDigits[v + 1] = d

RECURSIVE ParseNat(_)
ParseNat(s) ==
    IF s = <<>> THEN 0
    ELSE 10 * ParseNat(SubSeq(s, 1, Len(s) - 1)) + DigitValue(s[Len(s)])

\* url.QueryEscape on the characters that occur: a colon is escaped.
QueryEscape(s) == [i \in DOMAIN s |-> IF s[i] = ":" THEN "%3A" ELSE s[i]]

\* url.Values.Encode: key=value pairs in the order of the keys.
QueryKeys == <<"limit", "page", "since", "taskID", "until">>

RECURSIVE EncodeFrom(_, _)
EncodeFrom(q, k) ==
    IF k > Len(QueryKeys) THEN <<>>
    ELSE IF QueryKeys[k] \notin DOMAIN q THEN EncodeFrom(q, k + 1)
    ELSE LET rest == EncodeFrom(q, k + 1) IN
         <<QueryKeys[k], "=">> \o QueryEscape(q[QueryKeys[k]]) \o
         (IF rest = <<>> THEN <<>> ELSE <<"&">> \o rest)

Encode(q) == EncodeFrom(q, 1)

\* The runs the server lists for a query: of its n runs, numbered in its
\* order, those of the page asked for.
RunsListed(n, query) ==
    LET pg == ParseNat(query["page"])
        lim == ParseNat(query["limit"])
        last == IF n < (pg + 1) * lim THEN n ELSE (pg + 1) * lim
    IN [k \in 1..(IF last > pg * lim THEN last - pg * lim ELSE 0) |-> pg * lim + k]

\* The page size ListRuns asks for unless a smaller limit is given, line 168.
DefaultPageLimit == 100

Limits == {0, 1, 2, 99, 100, 150, 200}

Time == <<"2021-01-02T03", ":", "04", ":", "05Z">>

ListRunsRequests ==
    { [Page |-> r[1], TaskID |-> r[2], Limit |-> l, Since |-> r[3], Until |-> r[4]] :
        l \in Limits,
        r \in { <<0, <<>>, <<>>, <<>> >>, <<5, <<"t1">>, Time, <<>> >>,
                <<0, <<>>, <<>>, Time>> } }

ServerRunCounts == {0, 1, 2, 3, 99, 100, 101, 150, 200, 201}

\* q with key k set to v.
SetValue(q, k, v) == [x \in DOMAIN q \cup {k} |-> IF x = k THEN v ELSE q[x]]

\* ListRuns, lines 162-183: the query values and the page size.
ListRunsCall ==
    /\ apiPc = "idle"
    /\ \E c \in Clients, req \in ListRunsRequests, n \in ServerRunCounts :
         LET pageLimit == IF req.Limit > 0 /\ req.Limit < DefaultPageLimit
                          THEN req.Limit ELSE DefaultPageLimit
             q1 == SetValue(EmptyMap, "page", FormatInt(req.Page))
             q2 == IF req.TaskID # <<>> THEN SetValue(q1, "taskID", req.TaskID)
                   ELSE q1
             q3 == SetValue(q2, "limit", FormatInt(pageLimit))
             q4 == IF req.Since # <<>> THEN SetValue(q3, "since", req.Since)
                   ELSE q3
             q5 == IF req.Until # <<>> THEN SetValue(q4, "until", req.Until)
                   ELSE q4
         IN /\ apiClient' = c
            /\ lrReq' = req
            /\ serverRuns' = n
            /\ lrPageLimit' = pageLimit
            /\ lrQ' = q5
    /\ apiCall' = [NoCall EXCEPT !.name = "ListRuns", !.method = "GET",
                                 !.reply = TRUE]
    /\ lrI' = 0
    /\ lrResp' = <<>>
    /\ lrPage' = <<>>
    /\ apiPc' = "loop"
    /\ UNCHANGED <<localRunVars, valVars, deployVars, sanVars, concVars, httpReq, httpSent, httpResp,
                   apiOut, apiErr, lrOut>>

\* ListRuns, lines 185-187: the next page is asked for.
ListRunsNext ==
    /\ apiPc = "loop"
    /\ lrQ' = SetValue(lrQ, "page", FormatInt(lrI))
    /\ lrI' = lrI + 1
    /\ apiCall' = [apiCall EXCEPT !.path = Str(<<"/runs/list?">> \o Encode(lrQ')),
                                  !.query = lrQ']
    /\ apiPc' = "do"
    /\ UNCHANGED <<localRunVars, valVars, deployVars, sanVars, concVars, apiClient, httpReq, httpSent,
                   httpResp, apiOut, apiErr, serverRuns, lrReq, lrPageLimit,
                   lrResp, lrPage, lrOut>>

\* ListRuns as it would be if an over-fetched page were not truncated.
ListRunsPage_NoTruncate ==
    /\ apiPc = "page"
    /\ IF apiErr # NoErr
       THEN /\ lrOut' = Ptr(<<>>)
            /\ apiPc' = "returned"
            /\ UNCHANGED lrResp
       ELSE /\ lrResp' = lrResp \o lrPage
            /\ IF \/ Len(lrPage) # lrPageLimit
                  \/ lrReq.Limit > 0 /\ Len(lrResp') >= lrReq.Limit
               THEN /\ lrOut' = Ptr(lrResp')
                    /\ apiPc' = "returned"
               ELSE /\ apiPc' = "loop"
                    /\ UNCHANGED lrOut
    /\ UNCHANGED <<localRunVars, valVars, deployVars, sanVars, concVars, apiClient, apiCall, httpReq,
                   httpSent, httpResp, apiOut, apiErr, serverRuns, lrReq,
                   lrPageLimit, lrQ, lrI, lrPage>>

\* ListRuns, lines 187-207: the error of do is returned with an empty
\* response; else the page is appended, truncated to the limit, and the loop
\* ends on a page that is not full or when the limit is reached.
ListRunsPage ==
    /\ apiPc = "page"
    /\ IF apiErr # NoErr
       THEN /\ lrOut' = Ptr(<<>>)
            /\ apiPc' = "returned"
            /\ UNCHANGED lrResp
       ELSE LET part == IF lrReq.Limit > 0 /\
                           Len(lrResp) + Len(lrPage) > lrReq.Limit
                        THEN SubSeq(lrPage, 1, lrReq.Limit - Len(lrResp))
                        ELSE lrPage
            IN /\ lrResp' = lrResp \o part
               /\ IF \/ Len(lrPage) # lrPageLimit
                     \/ lrReq.Limit > 0 /\ Len(lrResp') = lrReq.Limit
                  THEN /\ lrOut' = Ptr(lrResp')
                       /\ apiPc' = "returned"
                  ELSE /\ apiPc' = "loop"
                       /\ UNCHANGED lrOut
    /\ UNCHANGED <<localRunVars, valVars, deployVars, sanVars, concVars, apiClient, apiCall, httpReq,
                   httpSent, httpResp, apiOut, apiErr, serverRuns, lrReq,
                   lrPageLimit, lrQ, lrI, lrPage>>

\* A method that goes through do is called on a Client.
ClientCall ==
    /\ apiPc = "idle"
    /\ \E c \in Clients, e \in Endpoints :
         /\ apiClient' = c
         /\ apiCall' = e
    /\ apiPc' = "do"
    /\ UNCHANGED <<localRunVars, valVars, deployVars, sanVars, concVars, httpReq, httpSent, httpResp,
                   apiOut, apiErr, listVars>>

\* do, lines 341-372: the payload is marshalled, the request is built and
\* the authentication headers are set.
DoPrepare ==
    /\ apiPc = "do"
    /\ LET c == apiClient
           m == IF apiCall.payload = NilPtr THEN [buf |-> "", err |-> NoErr]
                ELSE Marshal(apiCall.payload[1])
           a == Authn(c)
       IN IF m.err # NoErr
          THEN /\ apiErr' = Wrap(m.err, "api: marshal payload")
               /\ apiPc' = AfterDo
               /\ UNCHANGED httpReq
          ELSE IF ~ValidHost(ClientHost(c))
          THEN /\ apiErr' = Wrap(<<"invalid character in host name">>,
                                 "api: new request")
               /\ apiPc' = AfterDo
               /\ UNCHANGED httpReq
          ELSE IF a.err # NoErr
          THEN /\ apiErr' = a.err
               /\ apiPc' = AfterDo
               /\ UNCHANGED httpReq
          ELSE /\ httpReq' = Ptr([method |-> apiCall.method,
                                  url |-> RequestURL(c, apiCall.path),
                                  query |-> apiCall.query,
                                  body |-> m.buf,
                                  headers |-> a.headers @@
                                              ("X-Airplane-Client" :> "cli") @@
                                              ("X-Airplane-Version" :> "version")])
               /\ apiPc' = "send"
               /\ UNCHANGED apiErr
    /\ UNCHANGED <<localRunVars, valVars, deployVars, sanVars, concVars, apiClient, apiCall, httpSent,
                   httpResp, apiOut, listVars>>

\* do, line 374: client.Do(req).
DoSend ==
    /\ apiPc = "send"
    /\ httpSent' = Append(httpSent, httpReq[1])
    /\ httpResp' \in DoOutcomes
    /\ apiPc' = "reply"
    /\ UNCHANGED <<localRunVars, valVars, deployVars, sanVars, concVars, apiClient, apiCall, httpReq,
                   apiOut, apiErr, listVars>>

\* do, lines 376-404: the response is turned into the error returned and
\* the reply is decoded (for ListRuns, into page); the deferred function
\* drains and closes the body of a response.
DoReturn ==
    /\ apiPc = "reply"
    /\ LET r == httpResp
           what == apiCall.method \o " " \o httpReq[1].url
       IN /\ apiErr' =
               IF r.err # NoErr THEN Wrap(r.err, "api: " \o what)
               ELSE IF r.status >= 400 /\ r.status < 600
               THEN IF r.body = "json"
                    THEN <<"api.Error", r.text, "message">>
                    ELSE <<"api: " \o what \o " - " \o r.text>>
               ELSE IF apiCall.reply /\ r.body # "json"
               THEN Wrap(<<"invalid character">>,
                         "api: " \o what \o " - decoding json")
               ELSE NoErr
          /\ httpResp' = IF r.status # 0
                         THEN [r EXCEPT !.drained = TRUE, !.closed = TRUE]
                         ELSE r
    /\ lrPage' = IF apiCall.name = "ListRuns" /\ apiErr' = NoErr
                  THEN RunsListed(serverRuns, httpReq[1].query)
                  ELSE lrPage
    /\ apiPc' = AfterDo
    /\ UNCHANGED <<localRunVars, valVars, deployVars, sanVars, concVars, apiClient, apiCall, httpReq,
                   httpSent, apiOut, serverRuns, lrReq, lrPageLimit, lrQ, lrI,
                   lrResp, lrOut>>

RunIDs == {"run1"}

\* RunURL, lines 102-106: no request and no error; setting the path of the
\* nil URL of a host that does not parse panics.
ClientRunURL ==
    /\ apiPc = "idle"
    /\ \E c \in Clients, id \in RunIDs :
         /\ apiClient' = c
         /\ apiCall' = [NoCall EXCEPT !.name = "RunURL"]
         /\ IF appURL(c) = NilPtr
            THEN /\ apiPc' = "panic"
                 /\ UNCHANGED apiOut
            ELSE /\ apiPc' = "returned"
                 /\ apiOut' = Str(appURL(c)[1] \o <<"/runs/", id>>)
    /\ UNCHANGED <<localRunVars, valVars, deployVars, sanVars, concVars, httpReq, httpSent, httpResp,
                   apiErr, listVars>>

InitClient == Parked /\ SanIdle /\ ConcIdle /\ ApiIdle /\ DeployIdle /\ ValIdle

NextClient ==
    \/ ClientCall
    \/ DoPrepare
    \/ DoSend
    \/ DoReturn
    \/ ClientRunURL
    \/ ListRunsCall
    \/ ListRunsNext
    \/ ListRunsPage

SpecClient == InitClient /\ [][NextClient]_vars

\* A method that goes through do has returned.
DoReturned == apiPc = "returned" /\ apiCall.method # ""

FirstRuns(n) == [k \in 1..n |-> k]

\* C31: for Limit > 0, ListRuns asks for pages 0, 1, 2, ... of size
\* min(Limit, 100), never more than ceil(Limit / size) of them; when every
\* request succeeds it returns exactly the first min(Limit, N) of the
\* server's N runs in the server's order, having stopped after the first
\* page that is not full or as soon as Limit runs are collected.
C31_ListRunsPaging ==
    (apiCall.name = "ListRuns" /\ lrReq.Limit > 0) =>
        LET limit == lrReq.Limit
            size == IF limit < 100 THEN limit ELSE 100
            most == (limit + size - 1) \div size
            least(x, y) == IF x < y THEN x ELSE y
        IN /\ Len(httpSent) <= most
           /\ \A j \in DOMAIN httpSent :
                /\ ParseNat(httpSent[j].query["page"]) = j - 1
                /\ ParseNat(httpSent[j].query["limit"]) = size
           /\ (apiPc = "returned" /\ apiErr = NoErr) =>
                /\ lrOut = Ptr(FirstRuns(least(limit, serverRuns)))
                /\ Len(httpSent) = least(most, (serverRuns \div size) + 1)

\* Limit 150 against 200 runs: two pages, the second one truncated.
C31_Witness ==
    /\ apiCall.name = "ListRuns"
    /\ apiPc = "returned"
    /\ apiErr = NoErr
    /\ lrReq.Limit = 150
    /\ serverRuns = 200
    /\ Len(httpSent) = 2
    /\ Len(lrPage) = 100
    /\ lrOut = Ptr(FirstRuns(150))

(***************************************************************************)
(* ensureConfigVarsExist (src/pkg/cmd/tasks/deploy/predeploy.go).  The API, *)
(* the terminal and the user are the environment.                           *)
(***************************************************************************)
\* The env of the definitions being deployed.
DeployEnvs ==
    { [k \in {} |-> EnvVar(NilPtr, NilPtr)],
      [k \in {"A", "B"} |->
          IF k = "A" THEN EnvVar(Ptr("lit"), NilPtr)
                     ELSE EnvVar(NilPtr, Ptr("db:prod"))],
      [k \in {"A", "B"} |->
          IF k = "A" THEN EnvVar(NilPtr, Ptr("db")) ELSE EnvVar(NilPtr, Ptr("db:prod"))],
      [k \in {"B"} |-> EnvVar(NilPtr, Ptr("!bad"))] }

\* An api.Error with its status.
ApiError(status) == <<"api.Error", status, "message">>

\* What client.GetConfig may return: nil, or an error with the messages
\* wrapped around its cause.
LookupOutcomes ==
    { [wrap |-> <<>>, cause |-> NoErr],
      [wrap |-> <<>>, cause |-> ApiError("404 Not Found")],
      [wrap |-> <<"get config">>, cause |-> ApiError("404 Not Found")],
      [wrap |-> <<>>, cause |-> ApiError("500 Internal Server Error")],
      [wrap |-> <<"api: POST /configs/get">>, cause |-> <<"connection refused">>] }

DoesNotExist(ref) == <<"config " \o ref \o " does not exist">>

\* The verdict as it would be if every api.Error led to the offer to create
\* the config.
LookupVerdict_AnyApiError(o, canPrompt) ==
    IF o.cause = NoErr THEN "nil"
    ELSE IF o.cause[1] = "api.Error"
    THEN IF ~canPrompt THEN "does not exist" ELSE "confirm"
    ELSE "cause"

\* Lines 43-52 and 63-64: what ensureConfigVarExists does with the result of
\* the lookup: return nil, return the cause of the error, return the "does
\* not exist" error, or ask the user.
LookupVerdict(o, canPrompt) ==
    IF o.cause = NoErr THEN "nil"
    ELSE IF o.cause[1] = "api.Error"
    THEN IF o.cause[2] # "404 Not Found" THEN "cause"
         ELSE IF ~canPrompt THEN "does not exist" ELSE "confirm"
    ELSE "cause"

\* ensureConfigVarExists returns e.
EnsureReturns(call, e) == [call EXCEPT !.returned = TRUE, !.err = e]

\* ensureConfigVarsExist, lines 18-23.
PredeployCall ==
    /\ pdPc = "idle"
    /\ pdCanPrompt' \in BOOLEAN
    /\ \/ /\ pdEnv' \in DeployEnvs
          /\ pdTodo' = DOMAIN pdEnv'
          /\ pdPc' = "loop"
          /\ UNCHANGED pdOut
       \/ /\ pdOut' = <<"get env">>
          /\ pdPc' = "done"
          /\ UNCHANGED <<pdEnv, pdTodo>>
    /\ UNCHANGED <<localRunVars, valVars, sanVars, concVars, apiVars, pdCall, pdRequests>>

\* ensureConfigVarsExist, lines 24-31: the range loop, in the map's order.
PredeployNext ==
    /\ pdPc = "loop"
    /\ IF pdTodo = {}
       THEN /\ pdOut' = NoErr
            /\ pdPc' = "done"
            /\ UNCHANGED <<pdTodo, pdCall>>
       ELSE \E k \in pdTodo :
              /\ pdTodo' = pdTodo \ {k}
              /\ IF pdEnv[k].Config = NilPtr
                 THEN UNCHANGED <<pdPc, pdCall>>
                 ELSE /\ pdCall' = [NoEnsure EXCEPT !.ref = pdEnv[k].Config[1]]
                      /\ pdPc' = "lookup"
              /\ UNCHANGED pdOut
    /\ UNCHANGED <<localRunVars, valVars, sanVars, concVars, apiVars, pdCanPrompt, pdEnv,
                   pdRequests>>

\* ensureConfigVarExists, lines 35-54 and 63-65.
EnsureLookup ==
    /\ pdPc = "lookup"
    /\ LET cn == ParseName(pdCall.ref) IN
       IF ~cn.ok
       THEN /\ pdCall' = EnsureReturns(pdCall, <<"invalid config name">>)
            /\ pdPc' = "ensured"
            /\ UNCHANGED pdRequests
       ELSE /\ pdRequests' = Append(pdRequests,
                                    [op |-> "GetConfig", Name |-> cn.Name,
                                     Tag |-> cn.Tag])
            /\ \E o \in LookupOutcomes :
                 LET verdict == LookupVerdict(o, pdCanPrompt)
                     looked == [pdCall EXCEPT !.lookup =
                                   IF o.cause = NoErr THEN "ok" ELSE Str(o.cause)]
                 IN CASE verdict = "nil" ->
                           /\ pdCall' = EnsureReturns(looked, NoErr)
                           /\ pdPc' = "ensured"
                      [] verdict = "cause" ->
                           /\ pdCall' = EnsureReturns(looked, o.cause)
                           /\ pdPc' = "ensured"
                      [] verdict = "does not exist" ->
                           /\ pdCall' = EnsureReturns(looked, DoesNotExist(pdCall.ref))
                           /\ pdPc' = "ensured"
                      [] verdict = "confirm" ->
                           /\ pdCall' = looked
                           /\ pdPc' = "confirm"
    /\ UNCHANGED <<localRunVars, valVars, sanVars, concVars, apiVars, pdCanPrompt, pdTodo,
                   pdEnv, pdOut>>

\* ensureConfigVarExists, lines 54-62: the user is asked "Create it now?".
EnsureConfirm ==
    /\ pdPc = "confirm"
    /\ \E answer \in {"yes", "no", "interrupt"} :
         LET asked == [pdCall EXCEPT !.confirmed = answer,
                                     !.prompts = pdCall.prompts + 1]
         IN CASE answer = "interrupt" ->
                   /\ pdCall' = EnsureReturns(asked, <<"interrupt">>)
                   /\ pdPc' = "ensured"
              [] answer = "no" ->
                   /\ pdCall' = EnsureReturns(asked, DoesNotExist(pdCall.ref))
                   /\ pdPc' = "ensured"
              [] answer = "yes" ->
                   /\ pdCall' = asked
                   /\ pdPc' = "secret"
    /\ UNCHANGED <<localRunVars, valVars, sanVars, concVars, apiVars, pdCanPrompt, pdTodo,
                   pdEnv, pdRequests, pdOut>>

\* createConfig, lines 68-84: the user is asked whether the config is a
\* secret and for its value.
CreateAsk ==
    /\ pdPc = "secret"
    /\ \/ /\ pdCall' = EnsureReturns([pdCall EXCEPT !.prompts = pdCall.prompts + 1],
                                     Wrap(<<"interrupt">>, "prompting value"))
          /\ pdPc' = "ensured"
       \/ /\ pdCall' = EnsureReturns([pdCall EXCEPT !.prompts = pdCall.prompts + 2],
                                     <<"interrupt">>)
          /\ pdPc' = "ensured"
       \/ /\ pdCall' = [pdCall EXCEPT !.prompts = pdCall.prompts + 2]
          /\ pdPc' = "set"
    /\ UNCHANGED <<localRunVars, valVars, sanVars, concVars, apiVars, pdCanPrompt, pdTodo,
                   pdEnv, pdRequests, pdOut>>

\* createConfig, line 85: configs.SetConfig sends the request.
CreateSet ==
    /\ pdPc = "set"
    /\ LET cn == ParseName(pdCall.ref) IN
       \E secret \in BOOLEAN :
         pdRequests' = Append(pdRequests,
                              [op |-> "SetConfig", Name |-> cn.Name,
                               Tag |-> cn.Tag, IsSecret |-> secret])
    /\ \E e \in {NoErr, <<"set config">>} :
         pdCall' = EnsureReturns([pdCall EXCEPT !.created = TRUE], e)
    /\ pdPc' = "ensured"
    /\ UNCHANGED <<localRunVars, valVars, sanVars, concVars, apiVars, pdCanPrompt, pdTodo,
                   pdEnv, pdOut>>

\* ensureConfigVarsExist, lines 26-28: the first error ends the loop.
EnsureReturn ==
    /\ pdPc = "ensured"
    /\ IF pdCall.err # NoErr
       THEN /\ pdOut' = pdCall.err
            /\ pdPc' = "done"
       ELSE /\ pdPc' = "loop"
            /\ UNCHANGED pdOut
    /\ UNCHANGED <<localRunVars, valVars, sanVars, concVars, apiVars, pdCanPrompt, pdTodo,
                   pdEnv, pdCall, pdRequests>>

InitPredeploy == Parked /\ SanIdle /\ ConcIdle /\ ApiIdle /\ DeployIdle /\ ValIdle

NextPredeploy ==
    \/ PredeployCall
    \/ PredeployNext
    \/ EnsureLookup
    \/ EnsureConfirm
    \/ CreateAsk
    \/ CreateSet
    \/ EnsureReturn

SpecPredeploy == InitPredeploy /\ [][NextPredeploy]_vars

\* The lookup of the current call failed with API status 404.
Lookup404 == pdCall.lookup = Str(ApiError("404 Not Found"))

\* C32: ensureConfigVarExists prompts only after a lookup that failed with
\* API status 404 when prompting is possible, and creates the config only
\* when, besides, the user confirmed.  A successful lookup returns nil and
\* any other lookup error is returned, both without prompt or creation; a
\* 404 when prompting is impossible or the user answered no returns the
\* "does not exist" error and creates nothing.
C32_CreateOnlyWhenConfirmed ==
    /\ pdCall.created => (Lookup404 /\ pdCanPrompt /\ pdCall.confirmed = "yes")
    /\ pdCall.prompts > 0 => (Lookup404 /\ pdCanPrompt)
    /\ Len(SelectSeq(pdRequests, LAMBDA r : r.op = "SetConfig")) <=
         Len(SelectSeq(pdRequests, LAMBDA r : r.op = "GetConfig"))
    /\ pdCall.returned =>
         /\ pdCall.lookup = "ok" =>
              (pdCall.err = NoErr /\ pdCall.prompts = 0 /\ ~pdCall.created)
         /\ (Lookup404 /\ (~pdCanPrompt \/ pdCall.confirmed = "no")) =>
              (pdCall.err = DoesNotExist(pdCall.ref) /\ ~pdCall.created)
         /\ (pdCall.lookup \notin {"", "ok"} /\ ~Lookup404) =>
              /\ pdCall.err # NoErr
              /\ Str(pdCall.err) = pdCall.lookup
              /\ pdCall.prompts = 0
              /\ ~pdCall.created

\* A missing config the user agreed to create, created.
C32_Witness ==
    /\ pdCall.returned
    /\ pdCall.created
    /\ pdCall.err = NoErr
    /\ Lookup404
    /\ pdCall.confirmed = "yes"
    /\ pdRequests[Len(pdRequests)].op = "SetConfig"

\* The engine as it was before this invocation's build request.
EngineBefore ==
    CHOOSE e \in InitialEngines :
        engine = IF builtByThis THEN EngineBuilt(e, tag) ELSE e

\* C33 as stated: with an image bearing the composed tag in the engine
\* before the invocation, Build returns that tag and no error whenever the
\* build call and the copy of its stream had no transport error.
C33_StaleTagAlwaysPasses ==
    (BuildHasReturned /\ buildResp.drained /\ tag \in UNION EngineBefore) =>
        (buildErr = NoErr /\ bo = tag)

\* C33, amended: with an image bearing the composed tag in the engine before
\* the invocation, Build returns that tag and no error whenever the build
\* call, the copy of its stream and the image-list call had no transport
\* error, whether or not this build produced an image, and Local goes on to
\* send the push request for that tag.
C33_StaleTagPasses ==
    (images # NilPtr /\ buildResp.drained /\ tag \in UNION EngineBefore) =>
        /\ pc \in {"verify", "built", "push", "push_inflight", "push_copy", "done"}
        /\ pc # "verify" => (buildErr = NoErr /\ bo = tag)
        /\ pc \in {"push_inflight", "push_copy", "done"} =>
             \E i \in DOMAIN calls : calls[i] = [op |-> "push", tag |-> tag]

\* A run that built nothing and pushed the tag an earlier build had left.
C33_Witness ==
    /\ pc = "done"
    /\ err = NoErr
    /\ ~builtByThis
    /\ tag = StaleTag
    /\ StaleTag \in UNION EngineBefore
    /\ calls[3] = [op |-> "push", tag |-> StaleTag]

\* New has returned a Builder for a Config with an empty builder name.
ManualBuilder == config # NilPtr /\ config[1].Builder = "" /\ b # NoBuilder

UnknownManual ==
    Wrap(<<"unknown builder type", "manual">>, "creating dockerfile")

UpperChars == {"A"}

\* C35: for an identifier that is not empty, what sanitizeTaskID returns has
\* the length of the identifier, holds no upper-case letter and does not end
\* in a digit, and sanitizeTaskID applied to it returns it unchanged.
C35_SanitizeIdempotent ==
    (sanOut # NilPtr /\ sanIn # <<>>) =>
        LET out == sanOut[1] IN
        /\ Len(out) = Len(sanIn)
        /\ \A k \in DOMAIN out : out[k] \notin UpperChars
        /\ out[Len(out)] \notin Digits
        /\ sanAgain # NilPtr => sanAgain[1] = out

\* "A-1" becomes "a-a" and stays "a-a".
C35_Witness ==
    /\ sanIn = <<"A", "-", "1">>
    /\ sanOut = Ptr(<<"a", "-", "a">>)
    /\ sanAgain = Ptr(<<"a", "-", "a">>)

\* The entries of the task's env for which getBuildEnv asks the config
\* service: no literal value, and a config reference.
ReferenceOnly ==
    {k \in DOMAIN def.Env :
        def.Env[k].Value = NilPtr /\ def.Env[k].Config # NilPtr}

\* C36: getBuildEnv asks the config service at most once for each entry
\* with a config reference and no literal value; an env map without such an
\* entry causes no request and no failure; in the map returned an entry with
\* neither is absent and an entry with both has its literal value.
C36_LiteralFirst ==
    /\ Len(configCalls) <= Cardinality(ReferenceOnly)
    /\ ReferenceOnly = {} => (configCalls = <<>> /\ (faults = <<>> \/ faults[1] # "env"))
    /\ EnvResolved =>
         \A k \in DOMAIN def.Env :
            LET v == def.Env[k] IN
            /\ (v.Value = NilPtr /\ v.Config = NilPtr) => k \notin DOMAIN buildEnv
            /\ (v.Value # NilPtr /\ v.Config # NilPtr) =>
                  (k \in DOMAIN buildEnv /\ buildEnv[k] = v.Value[1])

\* An entry with neither and an entry with both: one key, no request.
C36_Witness ==
    /\ EnvResolved
    /\ DOMAIN def.Env = {"BUILD_", "BUILD_B"}
    /\ def.Env["BUILD_B"] = EnvVar(Ptr("lit2"), Ptr("db"))
    /\ DOMAIN buildEnv = {"BUILD_B"}
    /\ buildEnv["BUILD_B"] = "lit2"
    /\ configCalls = <<>>

(***************************************************************************)
(* The registry token is fetched first.                                     *)
(***************************************************************************)
\* GetRegistryToken has failed in this invocation.
TokenFailed == \E i \in DOMAIN faults : faults[i] = "registry token"

\* Nothing Local does after line 15 has happened.
NothingAfterToken ==
    /\ configCalls = <<>>
    /\ config = NilPtr
    /\ b = NoBuilder
    /\ dockerClients = 0
    /\ tree = "none"
    /\ calls = <<>>

\* C37: as long as no registry token has been returned there has been no
\* config lookup, no builder construction, no staging tree and no engine call;
\* when GetRegistryToken fails Local has returned its error wrapped in
\* "getting registry token" and none of those has happened; the answer of
\* GetRegistryToken is never replaced, and the auth of the Builder is the
\* token and repo of that answer.
C37_TokenFirst ==
    /\ [](/\ registry = NoRegistry => NothingAfterToken
          /\ TokenFailed =>
                /\ pc = "done"
                /\ err = <<"getting registry token", "api">>
                /\ registry = NoRegistry
          /\ b # NoBuilder =>
                /\ registry \in Registries
                /\ b.auth = [Token |-> registry.Token, Repo |-> registry.Repo])
    /\ [][registry # NoRegistry => registry' = registry]_vars

C37_Witness ==
    /\ pc = "done"
    /\ TokenFailed
    /\ err = <<"getting registry token", "api">>
    /\ NothingAfterToken
    /\ def.Env # EmptyMap

(***************************************************************************)
(* Python synthesis without an entrypoint option.                           *)
(***************************************************************************)
\* The Builder is a python builder whose args hold no entrypoint, or one that
\* is not a string.
NoEntrypoint ==
    /\ b # NoBuilder
    /\ b.name = "python"
    /\ "entrypoint" \in DOMAIN b.args => b.args["entrypoint"] \in NonStrings

\* Build has returned the error of a missing file.
MissingFileError ==
    /\ Len(buildErr) >= 2
    /\ buildErr[2] = "the file is required"

ValidatedKinds ==
    <<"deno", "dockerfile", "image", "go", "node", "python", "sql", "rest">>

\* strings.Join(names, ", ").
RECURSIVE JoinNames(_)
JoinNames(names) ==
    IF names = <<>> THEN ""
    ELSE IF Len(names) = 1 THEN names[1]
    ELSE names[1] \o ", " \o JoinNames(Tail(names))

\* Definition.Validate, part_002 lines 496-537: the error it returns.
Validate(d) ==
    IF d.Slug = "" THEN <<"Expected a task slug">>
    ELSE LET defs == SelectSeq(ValidatedKinds, LAMBDA k : k \in DOMAIN d.Sections) IN
         IF Len(defs) = 0 THEN <<"No task type defined">>
         ELSE IF Len(defs) > 1
         THEN <<"Too many task types defined: only one of ("
                  \o JoinNames(defs) \o ") expected">>
         ELSE NoErr

\* The names of the kind sections of a Definition.
KindNames == {KindOrder[i] : i \in 1..Len(KindOrder)}

\* The options a section of a definition decodes to.
SectionOptions(k) ==
    IF k = "rest" THEN {EmptyMap, [o \in {"jsonBody"} |-> "int(1)"]}
    ELSE {EmptyMap}

\* The definitions Validate is called on: with and without a slug, with any
\* of the nine sections set.
ValidatedDefinitions ==
    UNION { [Slug : {"", "t"},
             Sections : {f \in [S -> UNION {SectionOptions(k) : k \in S}] :
                            \A k \in S : f[k] \in SectionOptions(k)}]
            : S \in SUBSET KindNames }

\* def.Validate() on a definition read from a task file.
ValidateCall ==
    /\ vdPc = "idle"
    /\ \E d \in ValidatedDefinitions :
         /\ vdDef' = d
         /\ vdErr' = Validate(d)
    /\ vdPc' = "validated"
    /\ UNCHANGED <<localRunVars, sanVars, concVars, apiVars, deployVars, vdKind>>

\* def.GetKindAndOptions() on the same definition.
KindCall ==
    /\ vdPc = "validated"
    /\ vdKind' = GetKindAndOptions(vdDef)
    /\ vdPc' = "done"
    /\ UNCHANGED <<localRunVars, sanVars, concVars, apiVars, deployVars, vdDef, vdErr>>

InitValidate == Parked /\ SanIdle /\ ConcIdle /\ ApiIdle /\ DeployIdle /\ ValIdle

NextValidate == ValidateCall \/ KindCall

SpecValidate == InitValidate /\ [][NextValidate]_vars

\* C39: on a definition with a non-empty slug, Validate succeeds exactly if
\* exactly one of the nine kind sections is set, and then GetKindAndOptions
\* returns the kind of that section and no error.
C39_ValidateAgrees ==
    (vdPc = "done" /\ vdDef.Slug # "") =>
        /\ vdErr = NoErr <=> Cardinality(DOMAIN vdDef.Sections) = 1
        /\ Cardinality(DOMAIN vdDef.Sections) = 1 =>
              /\ vdKind.err = NoErr
              /\ DOMAIN vdDef.Sections = {vdKind.kind}

====
